---------------------------- MODULE Spec2Model ----------------------------
(***************************************************************************)
(* A model of the C-subset analysis pipeline of MiniCompiler1:             *)
(*                                                                         *)
(*   source text --LexicalAnalyzer.tokenize--> tokens                      *)
(*               --Parser.parse-------------> AST                          *)
(*               --CCompiler.analyze_ast----> analysis record              *)
(*                                                                         *)
(* driven by CCompiler.analyze_code.  A source text is a sequence of       *)
(* one-character strings.  Python objects are records tagged with their    *)
(* class in the field cls ("Token", "ASTNode", "NoneType", "str", "list",  *)
(* "float"); an exception is a record tagged with its class in exc.        *)
(* Indices into the source and into the token list are 0-based, as in the  *)
(* Python code.                                                            *)
(***************************************************************************)
EXTENDS Integers, Sequences, FiniteSets, TLC

(***************************************************************************)
(* Characters (str.isspace, str.isdigit, str.isalpha, str.lower on ASCII)  *)
(***************************************************************************)
Whitespace == {" ", "\t", "\n", "\r"}

Digits == {"0", "1", "2", "3", "4", "5", "6", "7", "8", "9"}

LowerLetters ==
    {"a", "b", "c", "d", "e", "f", "g", "h", "i", "j", "k", "l", "m",
     "n", "o", "p", "q", "r", "s", "t", "u", "v", "w", "x", "y", "z"}

LowerOf ==
       "A" :> "a" @@ "B" :> "b" @@ "C" :> "c" @@ "D" :> "d" @@ "E" :> "e"
    @@ "F" :> "f" @@ "G" :> "g" @@ "H" :> "h" @@ "I" :> "i" @@ "J" :> "j"
    @@ "K" :> "k" @@ "L" :> "l" @@ "M" :> "m" @@ "N" :> "n" @@ "O" :> "o"
    @@ "P" :> "p" @@ "Q" :> "q" @@ "R" :> "r" @@ "S" :> "s" @@ "T" :> "t"
    @@ "U" :> "u" @@ "V" :> "v" @@ "W" :> "w" @@ "X" :> "x" @@ "Y" :> "y"
    @@ "Z" :> "z"

UpperLetters == DOMAIN LowerOf

HexLetters == {"a", "b", "c", "d", "e", "f"}

isspace(c) == c \in Whitespace

isdigit(c) == c \in Digits

isalpha(c) == c \in LowerLetters \/ c \in UpperLetters

isalnum(c) == isalpha(c) \/ isdigit(c)

lower(c) == IF c \in UpperLetters THEN LowerOf[c] ELSE c

\* the characters of a number run: isdigit, '.', or lower() in 'abcdef'
NumberChars == Digits \cup {"."} \cup HexLetters \cup {c \in UpperLetters : LowerOf[c] \in HexLetters}

\* the characters of an identifier or directive word: isalnum or '_'
WordChars == LowerLetters \cup UpperLetters \cup Digits \cup {"_"}

\* str.lower() of a whole string
LowerStr(s) == [i \in 1..Len(s) |-> lower(s[i])]

(***************************************************************************)
(* The lexer's tables (LexicalAnalyzer.__init__)                           *)
(***************************************************************************)
keywords ==
       <<"a", "u", "t", "o">> :> "AUTO" @@ <<"b", "r", "e", "a", "k">> :> "BREAK" @@ <<"c", "a", "s", "e">> :> "CASE"
    @@ <<"c", "h", "a", "r">> :> "CHAR" @@ <<"c", "o", "n", "s", "t">> :> "CONST" @@ <<"c", "o", "n", "t", "i", "n", "u", "e">> :> "CONTINUE"
    @@ <<"d", "e", "f", "a", "u", "l", "t">> :> "DEFAULT" @@ <<"d", "o">> :> "DO" @@ <<"d", "o", "u", "b", "l", "e">> :> "DOUBLE"
    @@ <<"e", "l", "s", "e">> :> "ELSE" @@ <<"e", "n", "u", "m">> :> "ENUM" @@ <<"e", "x", "t", "e", "r", "n">> :> "EXTERN"
    @@ <<"f", "l", "o", "a", "t">> :> "FLOAT" @@ <<"f", "o", "r">> :> "FOR" @@ <<"g", "o", "t", "o">> :> "GOTO"
    @@ <<"i", "f">> :> "IF" @@ <<"i", "n", "t">> :> "INT" @@ <<"l", "o", "n", "g">> :> "LONG"
    @@ <<"r", "e", "g", "i", "s", "t", "e", "r">> :> "REGISTER" @@ <<"r", "e", "t", "u", "r", "n">> :> "RETURN" @@ <<"s", "h", "o", "r", "t">> :> "SHORT"
    @@ <<"s", "i", "g", "n", "e", "d">> :> "SIGNED" @@ <<"s", "i", "z", "e", "o", "f">> :> "SIZEOF" @@ <<"s", "t", "a", "t", "i", "c">> :> "STATIC"
    @@ <<"s", "t", "r", "u", "c", "t">> :> "STRUCT" @@ <<"s", "w", "i", "t", "c", "h">> :> "SWITCH" @@ <<"t", "y", "p", "e", "d", "e", "f">> :> "TYPEDEF"
    @@ <<"u", "n", "i", "o", "n">> :> "UNION" @@ <<"u", "n", "s", "i", "g", "n", "e", "d">> :> "UNSIGNED" @@ <<"v", "o", "i", "d">> :> "VOID"
    @@ <<"v", "o", "l", "a", "t", "i", "l", "e">> :> "VOLATILE" @@ <<"w", "h", "i", "l", "e">> :> "WHILE"

operators ==
       <<"+", "+">> :> "INCREMENT" @@ <<"-", "-">> :> "DECREMENT" @@ <<"-", ">">> :> "ARROW"
    @@ <<"<", "<", "=">> :> "LEFT_SHIFT_ASSIGN" @@ <<">", ">", "=">> :> "RIGHT_SHIFT_ASSIGN" @@ <<"<", "<">> :> "LEFT_SHIFT"
    @@ <<">", ">">> :> "RIGHT_SHIFT" @@ <<"=", "=">> :> "EQUAL" @@ <<"!", "=">> :> "NOT_EQUAL"
    @@ <<"<", "=">> :> "LESS_EQUAL" @@ <<">", "=">> :> "GREATER_EQUAL" @@ <<"+", "=">> :> "PLUS_ASSIGN"
    @@ <<"-", "=">> :> "MINUS_ASSIGN" @@ <<"*", "=">> :> "MULTIPLY_ASSIGN" @@ <<"/", "=">> :> "DIVIDE_ASSIGN"
    @@ <<"%", "=">> :> "MODULO_ASSIGN" @@ <<"&", "=">> :> "AND_ASSIGN" @@ <<"|", "=">> :> "OR_ASSIGN"
    @@ <<"^", "=">> :> "XOR_ASSIGN" @@ <<"&", "&">> :> "AND" @@ <<"|", "|">> :> "OR"
    @@ <<"+">> :> "PLUS" @@ <<"-">> :> "MINUS" @@ <<"*">> :> "MULTIPLY"
    @@ <<"/">> :> "DIVIDE" @@ <<"%">> :> "MODULO" @@ <<"=">> :> "ASSIGN"
    @@ <<"<">> :> "LESS_THAN" @@ <<">">> :> "GREATER_THAN" @@ <<"!">> :> "NOT"
    @@ <<"&">> :> "BITWISE_AND" @@ <<"|">> :> "BITWISE_OR" @@ <<"^">> :> "BITWISE_XOR"
    @@ <<"~">> :> "BITWISE_NOT"

delimiters ==
       <<"(">> :> "LPAREN" @@ <<")">> :> "RPAREN" @@ <<"[">> :> "LBRACKET" @@ <<"]">> :> "RBRACKET"
    @@ <<"{">> :> "LBRACE" @@ <<"}">> :> "RBRACE" @@ <<",">> :> "COMMA" @@ <<";">> :> "SEMICOLON"
    @@ <<":">> :> "COLON" @@ <<".">> :> "DOT" @@ <<"#">> :> "HASH"

preprocessor ==
       <<"i", "n", "c", "l", "u", "d", "e">> :> "INCLUDE" @@ <<"d", "e", "f", "i", "n", "e">> :> "DEFINE" @@ <<"i", "f", "d", "e", "f">> :> "IFDEF"
    @@ <<"i", "f", "n", "d", "e", "f">> :> "IFNDEF" @@ <<"e", "n", "d", "i", "f">> :> "ENDIF" @@ <<"e", "l", "i", "f">> :> "ELIF"
    @@ <<"e", "l", "s", "e">> :> "ELSE_PP"

(***************************************************************************)
(* Python values                                                           *)
(***************************************************************************)
NoneV == [cls |-> "NoneType"]

Token(type, value, line, column) ==
    [cls |-> "Token", type |-> type, value |-> value, line |-> line, column |-> column]

\* No exception pending
NoExc == [exc |-> "none"]

\* raise Exception(f"...") : the message keeps the f-string's fields apart
Exc(fmt, a, b, line, column) ==
    [exc |-> "Exception", fmt |-> fmt, a |-> a, b |-> b, line |-> line, column |-> column]

\* the exceptions the interpreter itself raises
IndexError == [exc |-> "IndexError", fmt |-> "list index out of range", a |-> "", b |-> "", line |-> 0, column |-> 0]

ValueError(text) ==
    [exc |-> "ValueError", fmt |-> "could not convert string to float", a |-> "", b |-> "", line |-> 0, column |-> 0,
     text |-> text]

\* str(e): the message, without the exception's class
Str(e) == [cls |-> "str", message |-> [f \in (DOMAIN e) \ {"exc"} |-> e[f]]]

AttributeError(cls, attr) ==
    [exc |-> "AttributeError", fmt |-> "object has no attribute", a |-> cls, b |-> attr, line |-> 0, column |-> 0]

(***************************************************************************)
(* Sequence helpers with Python's 0-based indices                          *)
(***************************************************************************)
Min(S) == CHOOSE x \in S : \A y \in S : x <= y

Max(S) == CHOOSE x \in S : \A y \in S : x >= y

\* source[i]
Ch(src, i) == src[i + 1]

\* source[a:b]
Slice(src, a, b) == SubSeq(src, a + 1, b)

\* the index at which `while current < len(source) and source[current] in ok` stops
ScanWhileIn(src, cur, ok) ==
    Min({i \in cur..Len(src) : i = Len(src) \/ Ch(src, i) \notin ok})

\* the index at which `while current < len(source) and source[current] not in stop` stops
ScanUntil(src, cur, stop) ==
    Min({i \in cur..Len(src) : i = Len(src) \/ Ch(src, i) \in stop})

\* line and column after the characters source[a:b] went through
\*   if source[current] == '\n': line += 1; column = 1  else: column += 1
AdvanceOver(src, a, b, line, column) ==
    LET nl == {i \in a..(b - 1) : Ch(src, i) = "\n"} IN
    IF nl = {} THEN [line |-> line, column |-> column + (IF b > a THEN b - a ELSE 0)]
    ELSE [line |-> line + Cardinality(nl), column |-> 1 + (b - 1 - Max(nl))]

(***************************************************************************)
(* One iteration of tokenize's scan loop.  Every branch returns the        *)
(* cursor, line and column it leaves, the tokens it appends (out), the     *)
(* source offset at which each appended token's lexeme starts (at, which   *)
(* the code does not keep: it is recorded for the position claims) and     *)
(* the exception it raises, if any.                                        *)
(***************************************************************************)
Step(cur, line, column, out, at) ==
    [current |-> cur, line |-> line, column |-> column, out |-> out, at |-> at, exc |-> NoExc]

StepRaise(cur, line, column, e) ==
    [current |-> cur, line |-> line, column |-> column, out |-> <<>>, at |-> <<>>, exc |-> e]

\* ScanWhitespace with a newline that advances the column like a space
ScanWhitespaceOnOneLine(src, cur, line, column) ==
    IF Ch(src, cur) = "\n"
    THEN Step(cur + 1, line + 1, column + 1, <<Token("NEWLINE", <<"\n">>, line, column)>>, <<cur>>)
    ELSE Step(cur + 1, line, column + 1, <<>>, <<>>)

ScanWhitespace(src, cur, line, column) ==
    IF Ch(src, cur) = "\n"
    THEN Step(cur + 1, line + 1, 1, <<Token("NEWLINE", <<"\n">>, line, column)>>, <<cur>>)
    ELSE Step(cur + 1, line, column + 1, <<>>, <<>>)

ScanLineComment(src, cur, line, column) ==
    LET end == ScanUntil(src, cur, {"\n"})
        comment == Slice(src, cur, end)
    IN Step(end, line, column + Len(comment), <<Token("COMMENT", comment, line, column)>>, <<cur>>)

ScanBlockComment(src, cur, line, column) ==
    LET first == cur + 2
        closes == {i \in first..(Len(src) - 2) : Ch(src, i) = "*" /\ Ch(src, i + 1) = "/"}
        stop == IF closes # {} THEN Min(closes)
                ELSE IF first < Len(src) - 1 THEN Len(src) - 1 ELSE first
        end == IF closes # {} THEN stop + 2 ELSE stop
        pos == AdvanceOver(src, first, stop, line, column + 2)
        comment == Slice(src, cur, end)
    IN Step(end, pos.line, pos.column, <<Token("COMMENT_BLOCK", comment, pos.line, pos.column)>>, <<cur>>)

\* ScanQuoted without the test for the end of input after the loop: the
\* literal runs to the end of the source
ScanQuotedToEnd(src, cur, line, column, quote, type, what) ==
    LET start == cur + 1
        end == ScanUntil(src, start, {quote, "\n"})
        text == Slice(src, start, end)
    IN IF end < Len(src) /\ Ch(src, end) = "\n"
       THEN StepRaise(end, line, column + 1, Exc(what, "", "", line, column + 1))
       ELSE Step(end + 1, line, column + 1 + Len(text) + 2,
                 <<Token(type, text, line, column + 1)>>, <<cur>>)

\* A string or character literal: quote is '"' or "'", type STRING or CHARACTER
ScanQuoted(src, cur, line, column, quote, type, what) ==
    LET start == cur + 1
        end == ScanUntil(src, start, {quote, "\n"})
        text == Slice(src, start, end)
    IN IF end >= Len(src) \/ Ch(src, end) = "\n"
       THEN StepRaise(end, line, column + 1, Exc(what, "", "", line, column + 1))
       ELSE Step(end + 1, line, column + 1 + Len(text) + 2,
                 <<Token(type, text, line, column + 1)>>, <<cur>>)

ScanString(src, cur, line, column) ==
    ScanQuoted(src, cur, line, column, "\"", "STRING", "Unterminated string")

ScanCharacter(src, cur, line, column) ==
    ScanQuoted(src, cur, line, column, "'", "CHARACTER", "Unterminated character literal")

ScanNumber(src, cur, line, column) ==
    LET end == ScanWhileIn(src, cur, NumberChars)
        number == Slice(src, cur, end)
    IN Step(end, line, column + Len(number), <<Token("NUMBER", number, line, column)>>, <<cur>>)

ScanIdentifier(src, cur, line, column) ==
    LET end == ScanWhileIn(src, cur, WordChars)
        identifier == Slice(src, cur, end)
        type == IF LowerStr(identifier) \in DOMAIN keywords
                THEN keywords[LowerStr(identifier)] ELSE "IDENTIFIER"
    IN Step(end, line, column + Len(identifier), <<Token(type, identifier, line, column)>>, <<cur>>)

\* ScanPreprocessor that rewinds to the '#' when the word is no directive
ScanPreprocessorRewound(src, cur, line, column) ==
    LET directive_start == ScanWhileIn(src, cur + 1, Whitespace)
        pos == AdvanceOver(src, cur + 1, directive_start, line, column + 1)
        end == ScanWhileIn(src, directive_start, WordChars)
        directive == LowerStr(Slice(src, directive_start, end))
    IN IF directive \in DOMAIN preprocessor
       THEN Step(end, pos.line, pos.column + Len(directive),
                 <<Token(preprocessor[directive], directive, pos.line, pos.column)>>, <<cur>>)
       ELSE Step(cur, pos.line, pos.column + Len(directive),
                 <<Token("HASH", <<"#">>, pos.line, pos.column)>>, <<cur>>)

ScanPreprocessor(src, cur, line, column) ==
    LET directive_start == ScanWhileIn(src, cur + 1, Whitespace)
        pos == AdvanceOver(src, cur + 1, directive_start, line, column + 1)
        end == ScanWhileIn(src, directive_start, WordChars)
        directive == LowerStr(Slice(src, directive_start, end))
    IN IF directive \in DOMAIN preprocessor
       THEN Step(end, pos.line, pos.column + Len(directive),
                 <<Token(preprocessor[directive], directive, pos.line, pos.column)>>, <<cur>>)
       ELSE Step(directive_start, pos.line, pos.column + Len(directive),
                 <<Token("HASH", <<"#">>, pos.line, pos.column)>>, <<cur>>)

\* an entry of the operator table (or of `table`) of n characters at the cursor
ScanTable(src, cur, line, column, table, n) ==
    LET text == Slice(src, cur, cur + n)
    IN Step(cur + n, line, column + n, <<Token(table[text], text, line, column)>>, <<cur>>)

ScanUnknown(src, cur, line, column) ==
    StepRaise(cur, line, column, Exc("Unknown character", Ch(src, cur), "", line, column))

\* Branch with a test for three characters that wants a fourth after them
BranchShortOfEnd(src, cur) ==
    LET char == Ch(src, cur)
        n == Len(src)
    IN IF isspace(char) THEN "whitespace"
       ELSE IF char = "/" /\ cur + 1 < n /\ Ch(src, cur + 1) = "/" THEN "line_comment"
       ELSE IF char = "/" /\ cur + 1 < n /\ Ch(src, cur + 1) = "*" THEN "block_comment"
       ELSE IF char = "\"" THEN "string"
       ELSE IF char = "'" THEN "character"
       ELSE IF isdigit(char) THEN "number"
       ELSE IF isalpha(char) \/ char = "_" THEN "identifier"
       ELSE IF char = "#" THEN "preprocessor"
       ELSE IF cur + 3 < n /\ Slice(src, cur, cur + 3) \in DOMAIN operators THEN "operator3"
       ELSE IF cur + 1 < n /\ Slice(src, cur, cur + 2) \in DOMAIN operators THEN "operator2"
       ELSE IF <<char>> \in DOMAIN operators THEN "operator1"
       ELSE IF <<char>> \in DOMAIN delimiters THEN "delimiter"
       ELSE "unknown"

\* which branch of the loop body the character at the cursor takes, in the
\* order the code tests them
Branch(src, cur) ==
    LET char == Ch(src, cur)
        n == Len(src)
    IN IF isspace(char) THEN "whitespace"
       ELSE IF char = "/" /\ cur + 1 < n /\ Ch(src, cur + 1) = "/" THEN "line_comment"
       ELSE IF char = "/" /\ cur + 1 < n /\ Ch(src, cur + 1) = "*" THEN "block_comment"
       ELSE IF char = "\"" THEN "string"
       ELSE IF char = "'" THEN "character"
       ELSE IF isdigit(char) THEN "number"
       ELSE IF isalpha(char) \/ char = "_" THEN "identifier"
       ELSE IF char = "#" THEN "preprocessor"
       ELSE IF cur + 2 < n /\ Slice(src, cur, cur + 3) \in DOMAIN operators THEN "operator3"
       ELSE IF cur + 1 < n /\ Slice(src, cur, cur + 2) \in DOMAIN operators THEN "operator2"
       ELSE IF <<char>> \in DOMAIN operators THEN "operator1"
       ELSE IF <<char>> \in DOMAIN delimiters THEN "delimiter"
       ELSE "unknown"

\* what the loop body does at the cursor
ScanStep(src, cur, line, column) ==
    LET b == Branch(src, cur) IN
    CASE b = "whitespace" -> ScanWhitespace(src, cur, line, column)
      [] b = "line_comment" -> ScanLineComment(src, cur, line, column)
      [] b = "block_comment" -> ScanBlockComment(src, cur, line, column)
      [] b = "string" -> ScanString(src, cur, line, column)
      [] b = "character" -> ScanCharacter(src, cur, line, column)
      [] b = "number" -> ScanNumber(src, cur, line, column)
      [] b = "identifier" -> ScanIdentifier(src, cur, line, column)
      [] b = "preprocessor" -> ScanPreprocessor(src, cur, line, column)
      [] b = "operator3" -> ScanTable(src, cur, line, column, operators, 3)
      [] b = "operator2" -> ScanTable(src, cur, line, column, operators, 2)
      [] b = "operator1" -> ScanTable(src, cur, line, column, operators, 1)
      [] b = "delimiter" -> ScanTable(src, cur, line, column, delimiters, 1)
      [] OTHER -> ScanUnknown(src, cur, line, column)

\* EndOfInput without the final append
EndOfInputUnmarked(toks, line, column) == toks

\* tokens.append(Token(TokenType.EOF, '', line, column)); return tokens
EndOfInput(toks, line, column) == Append(toks, Token("EOF", <<>>, line, column))

\* tokenize(source) as a function: the loop run to its end.  ok tells
\* whether it returned; tokens is what it returned, at the lexeme starts.
RECURSIVE ScanLoop(_, _, _, _, _, _)
ScanLoop(src, cur, line, column, toks, at) ==
    IF cur >= Len(src)
    THEN [ok |-> TRUE, tokens |-> EndOfInput(toks, line, column), at |-> Append(at, cur), exc |-> NoExc]
    ELSE LET st == ScanStep(src, cur, line, column) IN
         IF st.exc # NoExc
         THEN [ok |-> FALSE, tokens |-> <<>>, at |-> <<>>, exc |-> st.exc]
         ELSE ScanLoop(src, st.current, st.line, st.column, toks \o st.out, at \o st.at)

tokenize(src) == ScanLoop(src, 0, 1, 1, <<>>, <<>>)

(***************************************************************************)
(* The AST (parser.py, class ASTNode) and the values a node carries        *)
(***************************************************************************)
\* ASTNode(node_type, value, children): `children or []` makes None the empty list
ASTNode(node_type, value, children) ==
    [cls |-> "ASTNode", node_type |-> node_type, value |-> value, children |-> children]

\* a str whose characters are s
StrV(s) == [cls |-> "str", s |-> s]

\* a list
ListV(items) == [cls |-> "list", items |-> items]

DigitValue ==
       "0" :> 0 @@ "1" :> 1 @@ "2" :> 2 @@ "3" :> 3 @@ "4" :> 4
    @@ "5" :> 5 @@ "6" :> 6 @@ "7" :> 7 @@ "8" :> 8 @@ "9" :> 9

RECURSIVE IntOfDigits(_)
IntOfDigits(ds) ==
    IF ds = <<>> THEN 0
    ELSE 10 * IntOfDigits(SubSeq(ds, 1, Len(ds) - 1)) + DigitValue[ds[Len(ds)]]

\* m * 10^e with m not a multiple of 10 (0 is 0 * 10^0): one form per number
RECURSIVE Normalise(_, _)
Normalise(m, e) ==
    IF m = 0 THEN [cls |-> "float", m |-> 0, e |-> 0]
    ELSE IF m % 10 = 0 THEN Normalise(m \div 10, e + 1)
    ELSE [cls |-> "float", m |-> m, e |-> e]

\* float(text) for the text of a NUMBER token (digits, '.', a-f, A-F, first a
\* digit): digits [ '.' digits ] [ ('e'|'E') digits ], else ValueError.
\* FloatValue: the value, given where the integer part, the fraction and the
\* exponent's digits end
FloatValue(text, intEnd, fracStart, fracEnd, expStart, expEnd) ==
    IF intEnd > 0 /\ expEnd = Len(text) /\ (expStart > fracEnd => expEnd > expStart)
    THEN [ok |-> TRUE,
          val |-> Normalise(IntOfDigits(Slice(text, 0, intEnd) \o Slice(text, fracStart, fracEnd)),
                            IntOfDigits(Slice(text, expStart, expEnd)) - (fracEnd - fracStart)),
          exc |-> NoExc]
    ELSE [ok |-> FALSE, val |-> NoneV, exc |-> ValueError(text)]

FloatExponent(text, intEnd, fracStart, fracEnd, expStart) ==
    FloatValue(text, intEnd, fracStart, fracEnd, expStart, ScanWhileIn(text, expStart, Digits))

FloatFraction(text, intEnd, fracStart, fracEnd) ==
    FloatExponent(text, intEnd, fracStart, fracEnd,
                  IF fracEnd < Len(text) /\ Ch(text, fracEnd) \in {"e", "E"}
                  THEN fracEnd + 1 ELSE fracEnd)

FloatInteger(text, intEnd, fracStart) ==
    FloatFraction(text, intEnd, fracStart, ScanWhileIn(text, fracStart, Digits))

FloatDot(text, intEnd) ==
    FloatInteger(text, intEnd,
                 IF intEnd < Len(text) /\ Ch(text, intEnd) = "." THEN intEnd + 1 ELSE intEnd)

FloatOf(text) == FloatDot(text, ScanWhileIn(text, 0, Digits))

(***************************************************************************)
(* Parser (parser.py).  Every production takes the token list and the      *)
(* cursor self.current and gives back what it returns (val) and the        *)
(* cursor it leaves, or the exception it raises (ok = FALSE).  A read of   *)
(* self.tokens[self.current] that the code does not guard raises           *)
(* IndexError when the cursor is past the last token.                      *)
(***************************************************************************)
POk(val, cur) == [ok |-> TRUE, val |-> val, cur |-> cur, exc |-> NoExc]

PRaise(e, cur) == [ok |-> FALSE, val |-> NoneV, cur |-> cur, exc |-> e]

\* self.tokens[self.current], where the cursor is known to be in range
Tok(toks, cur) == toks[cur + 1]

expect(toks, cur, expected_type) ==
    IF cur >= Len(toks)
    THEN PRaise(Exc("Expected, but reached end of input", expected_type, "", 0, 0), cur)
    ELSE LET token == Tok(toks, cur) IN
         IF token.type # expected_type
         THEN PRaise(Exc("Expected, but got, at line, column", expected_type, token.type,
                         token.line, token.column), cur)
         ELSE POk(token, cur + 1)


TypeKeywords == {"INT", "CHAR", "FLOAT", "DOUBLE", "VOID"}

MemberTypeKeywords == {"INT", "CHAR", "FLOAT", "DOUBLE"}

\* self.<name>(): a method of the parser, or the rest of one of its loops that
\* has collected `acc` so far, entered from another method
RECURSIVE Production(_, _, _, _)

parse_include(toks, cur) ==
    LET e == expect(toks, cur, "INCLUDE") IN
    IF ~e.ok THEN e
    ELSE IF e.cur >= Len(toks) THEN PRaise(IndexError, e.cur)
    ELSE IF Tok(toks, e.cur).type = "STRING"
    THEN LET header == expect(toks, e.cur, "STRING") IN
         IF ~header.ok THEN header
         ELSE POk(ASTNode("INCLUDE", StrV(header.val.value), <<>>), header.cur)
    ELSE IF Tok(toks, e.cur).type = "LESS_THAN"
    THEN LET lt == expect(toks, e.cur, "LESS_THAN") IN
         IF ~lt.ok THEN lt
         ELSE LET header == expect(toks, lt.cur, "IDENTIFIER") IN
              IF ~header.ok THEN header
              ELSE LET gt == expect(toks, header.cur, "GREATER_THAN") IN
                   IF ~gt.ok THEN gt
                   ELSE POk(ASTNode("INCLUDE", StrV(<<"<">> \o header.val.value \o <<">">>), <<>>),
                            gt.cur)
    ELSE PRaise(Exc("Expected string or <header> at line", "", "", Tok(toks, e.cur).line, 0), e.cur)

parse_define(toks, cur) ==
    LET e == expect(toks, cur, "DEFINE") IN
    IF ~e.ok THEN e
    ELSE LET macro == expect(toks, e.cur, "IDENTIFIER") IN
         IF ~macro.ok THEN macro
         ELSE IF macro.cur < Len(toks) /\ Tok(toks, macro.cur).type # "NEWLINE"
         THEN LET value == Production("parse_expression", toks, macro.cur, NoneV) IN
              IF ~value.ok THEN value
              ELSE POk(ASTNode("DEFINE", StrV(macro.val.value), <<value.val>>), value.cur)
         ELSE POk(ASTNode("DEFINE", StrV(macro.val.value), <<>>), macro.cur)

\* parse_program_loop that rejects a token no top-level construct starts with
parse_program_loop_strict(toks, cur, children) ==
    IF ~(cur < Len(toks) /\ Tok(toks, cur).type # "EOF")
    THEN POk(ASTNode("PROGRAM", NoneV, children), cur)
    ELSE LET type == Tok(toks, cur).type IN
         IF type = "INCLUDE"
         THEN LET r == Production("parse_include", toks, cur, NoneV) IN
              IF ~r.ok THEN r ELSE Production("parse_program_loop", toks, r.cur, Append(children, r.val))
         ELSE IF type = "DEFINE"
         THEN LET r == Production("parse_define", toks, cur, NoneV) IN
              IF ~r.ok THEN r ELSE Production("parse_program_loop", toks, r.cur, Append(children, r.val))
         ELSE IF type \in TypeKeywords \cup {"STRUCT"}
         THEN LET r == Production("parse_declaration", toks, cur, NoneV) IN
              IF ~r.ok THEN r ELSE Production("parse_program_loop", toks, r.cur, Append(children, r.val))
         ELSE PRaise(Exc("Unexpected token, at line, column", type, "",
                         Tok(toks, cur).line, Tok(toks, cur).column), cur)

\* parse_program_loop that makes a COMMENT node of a comment token
parse_program_loop_comments(toks, cur, children) ==
    IF ~(cur < Len(toks) /\ Tok(toks, cur).type # "EOF")
    THEN POk(ASTNode("PROGRAM", NoneV, children), cur)
    ELSE LET type == Tok(toks, cur).type IN
         IF type = "INCLUDE"
         THEN LET r == Production("parse_include", toks, cur, NoneV) IN
              IF ~r.ok THEN r ELSE Production("parse_program_loop", toks, r.cur, Append(children, r.val))
         ELSE IF type = "DEFINE"
         THEN LET r == Production("parse_define", toks, cur, NoneV) IN
              IF ~r.ok THEN r ELSE Production("parse_program_loop", toks, r.cur, Append(children, r.val))
         ELSE IF type \in TypeKeywords \cup {"STRUCT"}
         THEN LET r == Production("parse_declaration", toks, cur, NoneV) IN
              IF ~r.ok THEN r ELSE Production("parse_program_loop", toks, r.cur, Append(children, r.val))
         ELSE IF type \in {"COMMENT", "COMMENT_BLOCK"}
         THEN Production("parse_program_loop", toks, cur + 1,
                         Append(children, ASTNode("COMMENT", StrV(Tok(toks, cur).value), <<>>)))
         ELSE Production("parse_program_loop", toks, cur + 1, children)

parse_program_loop(toks, cur, children) ==
    IF ~(cur < Len(toks) /\ Tok(toks, cur).type # "EOF")
    THEN POk(ASTNode("PROGRAM", NoneV, children), cur)
    ELSE LET type == Tok(toks, cur).type IN
         IF type = "INCLUDE"
         THEN LET r == Production("parse_include", toks, cur, NoneV) IN
              IF ~r.ok THEN r ELSE Production("parse_program_loop", toks, r.cur, Append(children, r.val))
         ELSE IF type = "DEFINE"
         THEN LET r == Production("parse_define", toks, cur, NoneV) IN
              IF ~r.ok THEN r ELSE Production("parse_program_loop", toks, r.cur, Append(children, r.val))
         ELSE IF type \in TypeKeywords \cup {"STRUCT"}
         THEN LET r == Production("parse_declaration", toks, cur, NoneV) IN
              IF ~r.ok THEN r ELSE Production("parse_program_loop", toks, r.cur, Append(children, r.val))
         ELSE Production("parse_program_loop", toks, cur + 1, children)

parse_program(toks, cur) == Production("parse_program_loop", toks, cur, <<>>)

parse_declaration(toks, cur) ==
    LET type_spec == Production("parse_type_specifier", toks, cur, NoneV) IN
    IF ~type_spec.ok THEN type_spec
    ELSE LET declarator == Production("parse_declarator", toks, type_spec.cur, NoneV) IN
         IF ~declarator.ok THEN declarator
         ELSE IF declarator.cur >= Len(toks) THEN PRaise(IndexError, declarator.cur)
         ELSE IF Tok(toks, declarator.cur).type = "SEMICOLON"
         THEN LET e == expect(toks, declarator.cur, "SEMICOLON") IN
              IF ~e.ok THEN e
              ELSE POk(ASTNode("VARIABLE_DECLARATION", type_spec.val, <<declarator.val>>), e.cur)
         ELSE IF Tok(toks, declarator.cur).type = "LBRACE"
         THEN LET body == Production("parse_compound_statement", toks, declarator.cur, NoneV) IN
              IF ~body.ok THEN body
              ELSE POk(ASTNode("FUNCTION_DEFINITION", type_spec.val, <<declarator.val, body.val>>),
                       body.cur)
         ELSE LET e == expect(toks, declarator.cur, "SEMICOLON") IN
              IF ~e.ok THEN e
              ELSE POk(ASTNode("FUNCTION_DECLARATION", type_spec.val, <<declarator.val>>), e.cur)

parse_type_specifier(toks, cur) ==
    IF cur >= Len(toks) THEN PRaise(IndexError, cur)
    ELSE LET token == Tok(toks, cur) IN
         IF token.type \in TypeKeywords
         THEN POk(ASTNode("TYPE_SPECIFIER", StrV(token.value), <<>>), cur + 1)
         ELSE IF token.type = "STRUCT" THEN Production("parse_struct_declaration", toks, cur, NoneV)
         ELSE PRaise(Exc("Expected type specifier at line", "", "", token.line, 0), cur)

\* the loop over a struct definition's body, then expect(RBRACE)
parse_struct_body(toks, cur, members) ==
    IF cur < Len(toks) /\ Tok(toks, cur).type # "RBRACE"
    THEN IF Tok(toks, cur).type \in MemberTypeKeywords
         THEN LET m == Production("parse_struct_member", toks, cur, NoneV) IN
              IF ~m.ok THEN m ELSE Production("parse_struct_body", toks, m.cur, Append(members, m.val))
         ELSE Production("parse_struct_body", toks, cur + 1, members)
    ELSE LET e == expect(toks, cur, "RBRACE") IN
         IF ~e.ok THEN e ELSE POk(members, e.cur)

parse_struct_declaration(toks, cur) ==
    LET s == expect(toks, cur, "STRUCT") IN
    IF ~s.ok THEN s
    ELSE IF s.cur >= Len(toks) THEN PRaise(IndexError, s.cur)
    ELSE IF Tok(toks, s.cur).type = "IDENTIFIER"
    THEN LET tag == expect(toks, s.cur, "IDENTIFIER") IN
         IF ~tag.ok THEN tag
         ELSE IF tag.cur >= Len(toks) THEN PRaise(IndexError, tag.cur)
         ELSE IF Tok(toks, tag.cur).type = "LBRACE"
         THEN LET b == expect(toks, tag.cur, "LBRACE") IN
              IF ~b.ok THEN b
              ELSE LET members == Production("parse_struct_body", toks, b.cur, <<>>) IN
                   IF ~members.ok THEN members
                   ELSE POk(ASTNode("STRUCT_DEFINITION", StrV(tag.val.value), members.val),
                            members.cur)
         ELSE POk(ASTNode("STRUCT_DECLARATION", StrV(tag.val.value), <<>>), tag.cur)
    ELSE PRaise(Exc("Expected struct tag at line", "", "", Tok(toks, s.cur).line, 0), s.cur)

parse_struct_member(toks, cur) ==
    LET type_spec == Production("parse_type_specifier", toks, cur, NoneV) IN
    IF ~type_spec.ok THEN type_spec
    ELSE LET declarator == Production("parse_declarator", toks, type_spec.cur, NoneV) IN
         IF ~declarator.ok THEN declarator
         ELSE LET e == expect(toks, declarator.cur, "SEMICOLON") IN
              IF ~e.ok THEN e
              ELSE POk(ASTNode("STRUCT_MEMBER", type_spec.val, <<declarator.val>>), e.cur)

\* one round of the `while True` loop over a function declarator's parameters,
\* up to the `break` on RPAREN
parse_parameters(toks, cur, params) ==
    IF cur >= Len(toks) THEN PRaise(IndexError, cur)
    ELSE LET one ==
               IF Tok(toks, cur).type \in TypeKeywords
               THEN LET param_type == Production("parse_type_specifier", toks, cur, NoneV) IN
                    IF ~param_type.ok THEN param_type
                    ELSE IF param_type.cur >= Len(toks) THEN PRaise(IndexError, param_type.cur)
                    ELSE IF Tok(toks, param_type.cur).type = "IDENTIFIER"
                    THEN LET param_name == expect(toks, param_type.cur, "IDENTIFIER") IN
                         IF ~param_name.ok THEN param_name
                         ELSE POk(Append(params, ASTNode("PARAMETER", param_type.val, <<param_name.val>>)),
                                  param_name.cur)
                    ELSE POk(Append(params, ASTNode("PARAMETER", param_type.val, <<>>)), param_type.cur)
               ELSE POk(params, cur + 1)
         IN IF ~one.ok THEN one
            ELSE IF one.cur >= Len(toks) THEN PRaise(IndexError, one.cur)
            ELSE IF Tok(toks, one.cur).type = "RPAREN" THEN one
            ELSE LET c == expect(toks, one.cur, "COMMA") IN
                 IF ~c.ok THEN c ELSE Production("parse_parameters", toks, c.cur, one.val)

parse_declarator(toks, cur) ==
    IF cur >= Len(toks) THEN PRaise(IndexError, cur)
    ELSE IF Tok(toks, cur).type = "IDENTIFIER"
    THEN LET name == expect(toks, cur, "IDENTIFIER") IN
         IF ~name.ok THEN name
         ELSE IF name.cur >= Len(toks) THEN PRaise(IndexError, name.cur)
         ELSE IF Tok(toks, name.cur).type = "LPAREN"
         THEN LET lp == expect(toks, name.cur, "LPAREN") IN
              IF ~lp.ok THEN lp
              ELSE IF lp.cur >= Len(toks) THEN PRaise(IndexError, lp.cur)
              ELSE LET params == IF Tok(toks, lp.cur).type # "RPAREN"
                                 THEN Production("parse_parameters", toks, lp.cur, <<>>)
                                 ELSE POk(<<>>, lp.cur)
                   IN IF ~params.ok THEN params
                      ELSE LET rp == expect(toks, params.cur, "RPAREN") IN
                           IF ~rp.ok THEN rp
                           ELSE POk(ASTNode("FUNCTION_DECLARATOR", StrV(name.val.value), params.val),
                                    rp.cur)
         ELSE POk(ASTNode("VARIABLE_DECLARATOR", StrV(name.val.value), <<>>), name.cur)
    ELSE PRaise(Exc("Expected identifier at line", "", "", Tok(toks, cur).line, 0), cur)

\* parse_compound_loop that hands the statements over as the node's children
parse_compound_loop_children(toks, cur, statements) ==
    IF cur < Len(toks) /\ Tok(toks, cur).type # "RBRACE"
    THEN IF Tok(toks, cur).type = "NEWLINE"
         THEN Production("parse_compound_loop", toks, cur + 1, statements)
         ELSE LET statement == Production("parse_statement", toks, cur, NoneV) IN
              IF ~statement.ok THEN statement
              ELSE IF statement.val # NoneV
              THEN Production("parse_compound_loop", toks, statement.cur, Append(statements, statement.val))
              ELSE Production("parse_compound_loop", toks, statement.cur, statements)
    ELSE LET e == expect(toks, cur, "RBRACE") IN
         IF ~e.ok THEN e
         ELSE POk(ASTNode("COMPOUND_STATEMENT", NoneV, statements), e.cur)

\* the loop over a block's statements, then expect(RBRACE)
parse_compound_loop(toks, cur, statements) ==
    IF cur < Len(toks) /\ Tok(toks, cur).type # "RBRACE"
    THEN IF Tok(toks, cur).type = "NEWLINE"
         THEN Production("parse_compound_loop", toks, cur + 1, statements)
         ELSE LET statement == Production("parse_statement", toks, cur, NoneV) IN
              IF ~statement.ok THEN statement
              ELSE IF statement.val # NoneV
              THEN Production("parse_compound_loop", toks, statement.cur, Append(statements, statement.val))
              ELSE Production("parse_compound_loop", toks, statement.cur, statements)
    ELSE LET e == expect(toks, cur, "RBRACE") IN
         IF ~e.ok THEN e
         ELSE POk(ASTNode("COMPOUND_STATEMENT", ListV(statements), <<>>), e.cur)

parse_compound_statement(toks, cur) ==
    LET e == expect(toks, cur, "LBRACE") IN
    IF ~e.ok THEN e ELSE Production("parse_compound_loop", toks, e.cur, <<>>)

parse_break_statement(toks, cur) ==
    LET b == expect(toks, cur, "BREAK") IN
    IF ~b.ok THEN b
    ELSE LET e == expect(toks, b.cur, "SEMICOLON") IN
         IF ~e.ok THEN e
         ELSE POk(ASTNode("BREAK_STATEMENT", StrV(<<"b", "r", "e", "a", "k">>), <<>>), e.cur)

parse_continue_statement(toks, cur) ==
    LET c == expect(toks, cur, "CONTINUE") IN
    IF ~c.ok THEN c
    ELSE LET e == expect(toks, c.cur, "SEMICOLON") IN
         IF ~e.ok THEN e
         ELSE POk(ASTNode("CONTINUE_STATEMENT", StrV(<<"c", "o", "n", "t", "i", "n", "u", "e">>), <<>>),
                  e.cur)

parse_statement(toks, cur) ==
    IF cur >= Len(toks) THEN POk(NoneV, cur)
    ELSE LET type == Tok(toks, cur).type IN
         IF type = "IF" THEN Production("parse_if_statement", toks, cur, NoneV)
         ELSE IF type = "FOR" THEN Production("parse_for_statement", toks, cur, NoneV)
         ELSE IF type = "WHILE" THEN Production("parse_while_statement", toks, cur, NoneV)
         ELSE IF type = "DO" THEN Production("parse_do_while_statement", toks, cur, NoneV)
         ELSE IF type = "RETURN" THEN Production("parse_return_statement", toks, cur, NoneV)
         ELSE IF type = "BREAK" THEN Production("parse_break_statement", toks, cur, NoneV)
         ELSE IF type = "CONTINUE" THEN Production("parse_continue_statement", toks, cur, NoneV)
         ELSE IF type = "LBRACE" THEN Production("parse_compound_statement", toks, cur, NoneV)
         ELSE IF type \in MemberTypeKeywords THEN Production("parse_variable_declaration", toks, cur, NoneV)
         ELSE IF type = "IDENTIFIER" THEN Production("parse_expression_statement", toks, cur, NoneV)
         ELSE POk(NoneV, cur + 1)

parse_if_statement(toks, cur) ==
    LET i == expect(toks, cur, "IF") IN
    IF ~i.ok THEN i
    ELSE LET lp == expect(toks, i.cur, "LPAREN") IN
    IF ~lp.ok THEN lp
    ELSE LET condition == Production("parse_expression", toks, lp.cur, NoneV) IN
    IF ~condition.ok THEN condition
    ELSE LET rp == expect(toks, condition.cur, "RPAREN") IN
    IF ~rp.ok THEN rp
    ELSE LET then_statement == Production("parse_statement", toks, rp.cur, NoneV) IN
    IF ~then_statement.ok THEN then_statement
    ELSE IF then_statement.cur < Len(toks) /\ Tok(toks, then_statement.cur).type = "ELSE"
    THEN LET el == expect(toks, then_statement.cur, "ELSE") IN
         IF ~el.ok THEN el
         ELSE LET else_statement == Production("parse_statement", toks, el.cur, NoneV) IN
              IF ~else_statement.ok THEN else_statement
              ELSE POk(ASTNode("IF_STATEMENT", StrV(<<"i", "f">>),
                               <<condition.val, then_statement.val, else_statement.val>>),
                       else_statement.cur)
    ELSE POk(ASTNode("IF_STATEMENT", StrV(<<"i", "f">>),
                     <<condition.val, then_statement.val, NoneV>>),
             then_statement.cur)

\* `x = None; if self.tokens[self.current].type != stop: x = self.parse_expression()`
OptionalExpression(toks, cur, stop) ==
    IF cur >= Len(toks) THEN PRaise(IndexError, cur)
    ELSE IF Tok(toks, cur).type # stop THEN Production("parse_expression", toks, cur, NoneV)
    ELSE POk(NoneV, cur)

parse_for_statement(toks, cur) ==
    LET f == expect(toks, cur, "FOR") IN
    IF ~f.ok THEN f
    ELSE LET lp == expect(toks, f.cur, "LPAREN") IN
    IF ~lp.ok THEN lp
    ELSE LET init == OptionalExpression(toks, lp.cur, "SEMICOLON") IN
    IF ~init.ok THEN init
    ELSE LET s1 == expect(toks, init.cur, "SEMICOLON") IN
    IF ~s1.ok THEN s1
    ELSE LET condition == OptionalExpression(toks, s1.cur, "SEMICOLON") IN
    IF ~condition.ok THEN condition
    ELSE LET s2 == expect(toks, condition.cur, "SEMICOLON") IN
    IF ~s2.ok THEN s2
    ELSE LET update == OptionalExpression(toks, s2.cur, "RPAREN") IN
    IF ~update.ok THEN update
    ELSE LET rp == expect(toks, update.cur, "RPAREN") IN
    IF ~rp.ok THEN rp
    ELSE LET body == Production("parse_statement", toks, rp.cur, NoneV) IN
    IF ~body.ok THEN body
    ELSE POk(ASTNode("FOR_STATEMENT", StrV(<<"f", "o", "r">>),
                     <<init.val, condition.val, update.val, body.val>>),
             body.cur)

parse_while_statement(toks, cur) ==
    LET w == expect(toks, cur, "WHILE") IN
    IF ~w.ok THEN w
    ELSE LET lp == expect(toks, w.cur, "LPAREN") IN
    IF ~lp.ok THEN lp
    ELSE LET condition == Production("parse_expression", toks, lp.cur, NoneV) IN
    IF ~condition.ok THEN condition
    ELSE LET rp == expect(toks, condition.cur, "RPAREN") IN
    IF ~rp.ok THEN rp
    ELSE LET body == Production("parse_statement", toks, rp.cur, NoneV) IN
    IF ~body.ok THEN body
    ELSE POk(ASTNode("WHILE_STATEMENT", StrV(<<"w", "h", "i", "l", "e">>),
                     <<condition.val, body.val>>),
             body.cur)

parse_do_while_statement(toks, cur) ==
    LET d == expect(toks, cur, "DO") IN
    IF ~d.ok THEN d
    ELSE LET body == Production("parse_statement", toks, d.cur, NoneV) IN
    IF ~body.ok THEN body
    ELSE LET w == expect(toks, body.cur, "WHILE") IN
    IF ~w.ok THEN w
    ELSE LET lp == expect(toks, w.cur, "LPAREN") IN
    IF ~lp.ok THEN lp
    ELSE LET condition == Production("parse_expression", toks, lp.cur, NoneV) IN
    IF ~condition.ok THEN condition
    ELSE LET rp == expect(toks, condition.cur, "RPAREN") IN
    IF ~rp.ok THEN rp
    ELSE LET e == expect(toks, rp.cur, "SEMICOLON") IN
    IF ~e.ok THEN e
    ELSE POk(ASTNode("DO_WHILE_STATEMENT", StrV(<<"d", "o", "-", "w", "h", "i", "l", "e">>),
                     <<body.val, condition.val>>),
             e.cur)

parse_return_statement(toks, cur) ==
    LET r == expect(toks, cur, "RETURN") IN
    IF ~r.ok THEN r
    ELSE LET value == OptionalExpression(toks, r.cur, "SEMICOLON") IN
    IF ~value.ok THEN value
    ELSE LET e == expect(toks, value.cur, "SEMICOLON") IN
    IF ~e.ok THEN e
    ELSE POk(ASTNode("RETURN_STATEMENT", StrV(<<"r", "e", "t", "u", "r", "n">>),
                     IF value.val # NoneV THEN <<value.val>> ELSE <<>>),
             e.cur)

parse_variable_declaration(toks, cur) ==
    LET type_spec == Production("parse_type_specifier", toks, cur, NoneV) IN
    IF ~type_spec.ok THEN type_spec
    ELSE LET declarator == Production("parse_declarator", toks, type_spec.cur, NoneV) IN
    IF ~declarator.ok THEN declarator
    ELSE LET e == expect(toks, declarator.cur, "SEMICOLON") IN
    IF ~e.ok THEN e
    ELSE POk(ASTNode("VARIABLE_DECLARATION", type_spec.val, <<declarator.val>>), e.cur)

parse_expression_statement(toks, cur) ==
    LET expr == Production("parse_expression", toks, cur, NoneV) IN
    IF ~expr.ok THEN expr
    ELSE LET e == expect(toks, expr.cur, "SEMICOLON") IN
    IF ~e.ok THEN e
    ELSE POk(ASTNode("EXPRESSION_STATEMENT", expr.val, <<>>), e.cur)

parse_expression(toks, cur) == Production("parse_assignment_expression", toks, cur, NoneV)

AssignmentOperators ==
    {"ASSIGN", "PLUS_ASSIGN", "MINUS_ASSIGN", "MULTIPLY_ASSIGN", "DIVIDE_ASSIGN", "MODULO_ASSIGN",
     "AND_ASSIGN", "OR_ASSIGN", "XOR_ASSIGN", "LEFT_SHIFT_ASSIGN", "RIGHT_SHIFT_ASSIGN"}

parse_assignment_expression(toks, cur) ==
    LET left == Production("parse_logical_or_expression", toks, cur, NoneV) IN
    IF ~left.ok THEN left
    ELSE IF left.cur < Len(toks) /\ Tok(toks, left.cur).type \in AssignmentOperators
    THEN LET right == Production("parse_assignment_expression", toks, left.cur + 1, NoneV) IN
         IF ~right.ok THEN right
         ELSE POk(ASTNode("ASSIGNMENT_EXPRESSION", StrV(Tok(toks, left.cur).value),
                          <<left.val, right.val>>),
                  right.cur)
    ELSE left

\* the `while` loop of parse_logical_or_expression
parse_logical_or_loop(toks, cur, left) ==
    IF cur < Len(toks) /\ Tok(toks, cur).type \in {"OR"}
    THEN LET right == Production("parse_logical_and_expression", toks, cur + 1, NoneV) IN
         IF ~right.ok THEN right
         ELSE Production("parse_logical_or_loop", toks, right.cur,
                  ASTNode("LOGICAL_OR_EXPRESSION", StrV(Tok(toks, cur).value), <<left, right.val>>))
    ELSE POk(left, cur)

parse_logical_or_expression(toks, cur) ==
    LET left == Production("parse_logical_and_expression", toks, cur, NoneV) IN
    IF ~left.ok THEN left ELSE Production("parse_logical_or_loop", toks, left.cur, left.val)

\* the `while` loop of parse_logical_and_expression
parse_logical_and_loop(toks, cur, left) ==
    IF cur < Len(toks) /\ Tok(toks, cur).type \in {"AND"}
    THEN LET right == Production("parse_equality_expression", toks, cur + 1, NoneV) IN
         IF ~right.ok THEN right
         ELSE Production("parse_logical_and_loop", toks, right.cur,
                  ASTNode("LOGICAL_AND_EXPRESSION", StrV(Tok(toks, cur).value), <<left, right.val>>))
    ELSE POk(left, cur)

parse_logical_and_expression(toks, cur) ==
    LET left == Production("parse_equality_expression", toks, cur, NoneV) IN
    IF ~left.ok THEN left ELSE Production("parse_logical_and_loop", toks, left.cur, left.val)

\* the `while` loop of parse_equality_expression
parse_equality_loop(toks, cur, left) ==
    IF cur < Len(toks) /\ Tok(toks, cur).type \in {"EQUAL", "NOT_EQUAL"}
    THEN LET right == Production("parse_relational_expression", toks, cur + 1, NoneV) IN
         IF ~right.ok THEN right
         ELSE Production("parse_equality_loop", toks, right.cur,
                  ASTNode("EQUALITY_EXPRESSION", StrV(Tok(toks, cur).value), <<left, right.val>>))
    ELSE POk(left, cur)

parse_equality_expression(toks, cur) ==
    LET left == Production("parse_relational_expression", toks, cur, NoneV) IN
    IF ~left.ok THEN left ELSE Production("parse_equality_loop", toks, left.cur, left.val)

\* the `while` loop of parse_relational_expression
parse_relational_loop(toks, cur, left) ==
    IF cur < Len(toks) /\ Tok(toks, cur).type \in {"LESS_THAN", "LESS_EQUAL", "GREATER_THAN", "GREATER_EQUAL"}
    THEN LET right == Production("parse_shift_expression", toks, cur + 1, NoneV) IN
         IF ~right.ok THEN right
         ELSE Production("parse_relational_loop", toks, right.cur,
                  ASTNode("RELATIONAL_EXPRESSION", StrV(Tok(toks, cur).value), <<left, right.val>>))
    ELSE POk(left, cur)

parse_relational_expression(toks, cur) ==
    LET left == Production("parse_shift_expression", toks, cur, NoneV) IN
    IF ~left.ok THEN left ELSE Production("parse_relational_loop", toks, left.cur, left.val)

\* the `while` loop of parse_shift_expression
parse_shift_loop(toks, cur, left) ==
    IF cur < Len(toks) /\ Tok(toks, cur).type \in {"LEFT_SHIFT", "RIGHT_SHIFT"}
    THEN LET right == Production("parse_additive_expression", toks, cur + 1, NoneV) IN
         IF ~right.ok THEN right
         ELSE Production("parse_shift_loop", toks, right.cur,
                  ASTNode("SHIFT_EXPRESSION", StrV(Tok(toks, cur).value), <<left, right.val>>))
    ELSE POk(left, cur)

parse_shift_expression(toks, cur) ==
    LET left == Production("parse_additive_expression", toks, cur, NoneV) IN
    IF ~left.ok THEN left ELSE Production("parse_shift_loop", toks, left.cur, left.val)

\* parse_additive_loop with a right operand that takes the rest of the
\* additive expression
parse_additive_loop_right(toks, cur, left) ==
    IF cur < Len(toks) /\ Tok(toks, cur).type \in {"PLUS", "MINUS"}
    THEN LET right == Production("parse_additive_expression", toks, cur + 1, NoneV) IN
         IF ~right.ok THEN right
         ELSE POk(ASTNode("ADDITIVE_EXPRESSION", StrV(Tok(toks, cur).value), <<left, right.val>>),
                  right.cur)
    ELSE POk(left, cur)

\* the `while` loop of parse_additive_expression
parse_additive_loop(toks, cur, left) ==
    IF cur < Len(toks) /\ Tok(toks, cur).type \in {"PLUS", "MINUS"}
    THEN LET right == Production("parse_multiplicative_expression", toks, cur + 1, NoneV) IN
         IF ~right.ok THEN right
         ELSE Production("parse_additive_loop", toks, right.cur,
                  ASTNode("ADDITIVE_EXPRESSION", StrV(Tok(toks, cur).value), <<left, right.val>>))
    ELSE POk(left, cur)

parse_additive_expression(toks, cur) ==
    LET left == Production("parse_multiplicative_expression", toks, cur, NoneV) IN
    IF ~left.ok THEN left ELSE Production("parse_additive_loop", toks, left.cur, left.val)

\* the `while` loop of parse_multiplicative_expression
parse_multiplicative_loop(toks, cur, left) ==
    IF cur < Len(toks) /\ Tok(toks, cur).type \in {"MULTIPLY", "DIVIDE", "MODULO"}
    THEN LET right == Production("parse_unary_expression", toks, cur + 1, NoneV) IN
         IF ~right.ok THEN right
         ELSE Production("parse_multiplicative_loop", toks, right.cur,
                  ASTNode("MULTIPLICATIVE_EXPRESSION", StrV(Tok(toks, cur).value), <<left, right.val>>))
    ELSE POk(left, cur)

parse_multiplicative_expression(toks, cur) ==
    LET left == Production("parse_unary_expression", toks, cur, NoneV) IN
    IF ~left.ok THEN left ELSE Production("parse_multiplicative_loop", toks, left.cur, left.val)

parse_unary_expression(toks, cur) ==
    IF cur >= Len(toks) THEN PRaise(IndexError, cur)
    ELSE LET token == Tok(toks, cur) IN
         IF token.type \in {"PLUS", "MINUS", "NOT", "BITWISE_NOT"}
         THEN LET operand == Production("parse_unary_expression", toks, cur + 1, NoneV) IN
              IF ~operand.ok THEN operand
              ELSE POk(ASTNode("UNARY_EXPRESSION", StrV(token.value), <<operand.val>>), operand.cur)
         ELSE IF token.type \in {"INCREMENT", "DECREMENT"}
         THEN LET operand == Production("parse_postfix_expression", toks, cur + 1, NoneV) IN
              IF ~operand.ok THEN operand
              ELSE POk(ASTNode("UNARY_EXPRESSION", StrV(token.value), <<operand.val>>), operand.cur)
         ELSE Production("parse_postfix_expression", toks, cur, NoneV)

\* one round of the `while True` loop over a call's arguments, up to the
\* `break` on RPAREN
parse_arguments(toks, cur, args) ==
    LET arg == Production("parse_expression", toks, cur, NoneV) IN
    IF ~arg.ok THEN arg
    ELSE IF arg.cur >= Len(toks) THEN PRaise(IndexError, arg.cur)
    ELSE IF Tok(toks, arg.cur).type = "RPAREN" THEN POk(Append(args, arg.val), arg.cur)
    ELSE LET c == expect(toks, arg.cur, "COMMA") IN
         IF ~c.ok THEN c ELSE Production("parse_arguments", toks, c.cur, Append(args, arg.val))

\* the `while self.current < len(self.tokens)` loop of parse_postfix_expression
parse_postfix_loop(toks, cur, left) ==
    IF cur >= Len(toks) THEN POk(left, cur)
    ELSE LET token == Tok(toks, cur) IN
         IF token.type = "LBRACKET"
         THEN LET lb == expect(toks, cur, "LBRACKET") IN
              IF ~lb.ok THEN lb
              ELSE LET index == Production("parse_expression", toks, lb.cur, NoneV) IN
              IF ~index.ok THEN index
              ELSE LET rb == expect(toks, index.cur, "RBRACKET") IN
              IF ~rb.ok THEN rb
              ELSE Production("parse_postfix_loop", toks, rb.cur,
                       ASTNode("ARRAY_ACCESS", StrV(<<"[", "]">>), <<left, index.val>>))
         ELSE IF token.type = "LPAREN"
         THEN LET lp == expect(toks, cur, "LPAREN") IN
              IF ~lp.ok THEN lp
              ELSE IF lp.cur >= Len(toks) THEN PRaise(IndexError, lp.cur)
              ELSE LET args == IF Tok(toks, lp.cur).type # "RPAREN"
                               THEN Production("parse_arguments", toks, lp.cur, <<>>)
                               ELSE POk(<<>>, lp.cur)
                   IN IF ~args.ok THEN args
                      ELSE LET rp == expect(toks, args.cur, "RPAREN") IN
                           IF ~rp.ok THEN rp
                           ELSE Production("parse_postfix_loop", toks, rp.cur,
                                    ASTNode("FUNCTION_CALL", StrV(<<"(", ")">>), <<left>> \o args.val))
         ELSE IF token.type \in {"INCREMENT", "DECREMENT"}
         THEN Production("parse_postfix_loop", toks, cur + 1,
                  ASTNode("POSTFIX_EXPRESSION", StrV(token.value), <<left>>))
         ELSE IF token.type = "DOT"
         THEN LET d == expect(toks, cur, "DOT") IN
              IF ~d.ok THEN d
              ELSE LET member == expect(toks, d.cur, "IDENTIFIER") IN
              IF ~member.ok THEN member
              ELSE Production("parse_postfix_loop", toks, member.cur,
                       ASTNode("MEMBER_ACCESS", StrV(<<".">>), <<left, member.val>>))
         ELSE IF token.type = "ARROW"
         THEN LET a == expect(toks, cur, "ARROW") IN
              IF ~a.ok THEN a
              ELSE LET member == expect(toks, a.cur, "IDENTIFIER") IN
              IF ~member.ok THEN member
              ELSE Production("parse_postfix_loop", toks, member.cur,
                       ASTNode("POINTER_MEMBER_ACCESS", StrV(<<"-", ">">>), <<left, member.val>>))
         ELSE POk(left, cur)

parse_postfix_expression(toks, cur) ==
    LET left == Production("parse_primary_expression", toks, cur, NoneV) IN
    IF ~left.ok THEN left ELSE Production("parse_postfix_loop", toks, left.cur, left.val)

\* parse_primary_expression that keeps a number's text as it is
parse_primary_expression_text(toks, cur) ==
    IF cur >= Len(toks) THEN PRaise(IndexError, cur)
    ELSE LET token == Tok(toks, cur) IN
         IF token.type = "NUMBER" THEN POk(ASTNode("NUMBER", StrV(token.value), <<>>), cur + 1)
         ELSE IF token.type = "STRING" THEN POk(ASTNode("STRING", StrV(token.value), <<>>), cur + 1)
         ELSE IF token.type = "CHARACTER" THEN POk(ASTNode("CHARACTER", StrV(token.value), <<>>), cur + 1)
         ELSE IF token.type = "IDENTIFIER" THEN POk(ASTNode("IDENTIFIER", StrV(token.value), <<>>), cur + 1)
         ELSE IF token.type = "LPAREN"
         THEN LET lp == expect(toks, cur, "LPAREN") IN
              IF ~lp.ok THEN lp
              ELSE LET expr == Production("parse_expression", toks, lp.cur, NoneV) IN
              IF ~expr.ok THEN expr
              ELSE LET rp == expect(toks, expr.cur, "RPAREN") IN
              IF ~rp.ok THEN rp
              ELSE POk(expr.val, rp.cur)
         ELSE PRaise(Exc("Unexpected token, at line, column", token.type, "", token.line, token.column), cur)

parse_primary_expression(toks, cur) ==
    IF cur >= Len(toks) THEN PRaise(IndexError, cur)
    ELSE LET token == Tok(toks, cur) IN
         IF token.type = "NUMBER"
         THEN LET f == FloatOf(token.value) IN
              IF ~f.ok THEN PRaise(f.exc, cur + 1)
              ELSE POk(ASTNode("NUMBER", f.val, <<>>), cur + 1)
         ELSE IF token.type = "STRING" THEN POk(ASTNode("STRING", StrV(token.value), <<>>), cur + 1)
         ELSE IF token.type = "CHARACTER" THEN POk(ASTNode("CHARACTER", StrV(token.value), <<>>), cur + 1)
         ELSE IF token.type = "IDENTIFIER" THEN POk(ASTNode("IDENTIFIER", StrV(token.value), <<>>), cur + 1)
         ELSE IF token.type = "LPAREN"
         THEN LET lp == expect(toks, cur, "LPAREN") IN
              IF ~lp.ok THEN lp
              ELSE LET expr == Production("parse_expression", toks, lp.cur, NoneV) IN
              IF ~expr.ok THEN expr
              ELSE LET rp == expect(toks, expr.cur, "RPAREN") IN
              IF ~rp.ok THEN rp
              ELSE POk(expr.val, rp.cur)
         ELSE PRaise(Exc("Unexpected token, at line, column", token.type, "", token.line, token.column), cur)

(***************************************************************************)
(* The parser's loops, one round at a time.  A round is one pass through   *)
(* the body of a `while`: it gives back what the loop has collected (val)  *)
(* and the cursor it leaves, whether it left the loop by `break` (brk),    *)
(* or the exception it raised.                                             *)
(***************************************************************************)
Round(val, cur, brk) == [ok |-> TRUE, val |-> val, cur |-> cur, exc |-> NoExc, brk |-> brk]

\* a round that an exception ended, r being the call or test that raised
RoundRaised(r) == [ok |-> FALSE, val |-> NoneV, cur |-> r.cur, exc |-> r.exc, brk |-> FALSE]

\* a round that appends what the production that ended as r returned
RoundAppend(acc, r) == IF ~r.ok THEN RoundRaised(r) ELSE Round(Append(acc, r.val), r.cur, FALSE)

\* the condition at the head of each loop; `while True` for the parameters
\* and the arguments
LoopGuard(name, toks, cur) ==
    CASE name = "program" -> cur < Len(toks) /\ Tok(toks, cur).type # "EOF"
      [] name = "struct_body" -> cur < Len(toks) /\ Tok(toks, cur).type # "RBRACE"
      [] name = "compound" -> cur < Len(toks) /\ Tok(toks, cur).type # "RBRACE"
      [] name = "postfix" -> cur < Len(toks)
      [] OTHER -> TRUE

\* parse_program_round with a last branch that leaves the unknown token
\* where it is
parse_program_round_stuck(toks, cur, children) ==
    LET type == Tok(toks, cur).type IN
    IF type = "INCLUDE" THEN RoundAppend(children, Production("parse_include", toks, cur, NoneV))
    ELSE IF type = "DEFINE" THEN RoundAppend(children, Production("parse_define", toks, cur, NoneV))
    ELSE IF type \in TypeKeywords \cup {"STRUCT"}
    THEN RoundAppend(children, Production("parse_declaration", toks, cur, NoneV))
    ELSE Round(children, cur, FALSE)

\* the body of parse_program's loop
parse_program_round(toks, cur, children) ==
    LET type == Tok(toks, cur).type IN
    IF type = "INCLUDE" THEN RoundAppend(children, Production("parse_include", toks, cur, NoneV))
    ELSE IF type = "DEFINE" THEN RoundAppend(children, Production("parse_define", toks, cur, NoneV))
    ELSE IF type \in TypeKeywords \cup {"STRUCT"}
    THEN RoundAppend(children, Production("parse_declaration", toks, cur, NoneV))
    ELSE Round(children, cur + 1, FALSE)

\* the body of the loop over a struct definition's members
parse_struct_round(toks, cur, members) ==
    IF Tok(toks, cur).type \in MemberTypeKeywords
    THEN RoundAppend(members, Production("parse_struct_member", toks, cur, NoneV))
    ELSE Round(members, cur + 1, FALSE)

\* the body of the loop over a function declarator's parameters
parse_parameters_round(toks, cur, params) ==
    IF cur >= Len(toks) THEN RoundRaised(PRaise(IndexError, cur))
    ELSE LET one ==
               IF Tok(toks, cur).type \in TypeKeywords
               THEN LET param_type == Production("parse_type_specifier", toks, cur, NoneV) IN
                    IF ~param_type.ok THEN param_type
                    ELSE IF param_type.cur >= Len(toks) THEN PRaise(IndexError, param_type.cur)
                    ELSE IF Tok(toks, param_type.cur).type = "IDENTIFIER"
                    THEN LET param_name == expect(toks, param_type.cur, "IDENTIFIER") IN
                         IF ~param_name.ok THEN param_name
                         ELSE POk(Append(params, ASTNode("PARAMETER", param_type.val, <<param_name.val>>)),
                                  param_name.cur)
                    ELSE POk(Append(params, ASTNode("PARAMETER", param_type.val, <<>>)), param_type.cur)
               ELSE POk(params, cur + 1)
         IN IF ~one.ok THEN RoundRaised(one)
            ELSE IF one.cur >= Len(toks) THEN RoundRaised(PRaise(IndexError, one.cur))
            ELSE IF Tok(toks, one.cur).type = "RPAREN" THEN Round(one.val, one.cur, TRUE)
            ELSE LET c == expect(toks, one.cur, "COMMA") IN
                 IF ~c.ok THEN RoundRaised(c) ELSE Round(one.val, c.cur, FALSE)

\* the body of parse_compound_statement's loop
parse_compound_round(toks, cur, statements) ==
    IF Tok(toks, cur).type = "NEWLINE" THEN Round(statements, cur + 1, FALSE)
    ELSE LET statement == Production("parse_statement", toks, cur, NoneV) IN
         IF ~statement.ok THEN RoundRaised(statement)
         ELSE IF statement.val # NoneV THEN Round(Append(statements, statement.val), statement.cur, FALSE)
         ELSE Round(statements, statement.cur, FALSE)

\* the body of the loop over a call's arguments
parse_arguments_round(toks, cur, args) ==
    LET arg == Production("parse_expression", toks, cur, NoneV) IN
    IF ~arg.ok THEN RoundRaised(arg)
    ELSE IF arg.cur >= Len(toks) THEN RoundRaised(PRaise(IndexError, arg.cur))
    ELSE IF Tok(toks, arg.cur).type = "RPAREN" THEN Round(Append(args, arg.val), arg.cur, TRUE)
    ELSE LET c == expect(toks, arg.cur, "COMMA") IN
         IF ~c.ok THEN RoundRaised(c) ELSE Round(Append(args, arg.val), c.cur, FALSE)

\* the body of parse_postfix_expression's loop
parse_postfix_round(toks, cur, left) ==
    LET token == Tok(toks, cur) IN
    IF token.type = "LBRACKET"
    THEN LET lb == expect(toks, cur, "LBRACKET") IN
         IF ~lb.ok THEN RoundRaised(lb)
         ELSE LET index == Production("parse_expression", toks, lb.cur, NoneV) IN
         IF ~index.ok THEN RoundRaised(index)
         ELSE LET rb == expect(toks, index.cur, "RBRACKET") IN
         IF ~rb.ok THEN RoundRaised(rb)
         ELSE Round(ASTNode("ARRAY_ACCESS", StrV(<<"[", "]">>), <<left, index.val>>), rb.cur, FALSE)
    ELSE IF token.type = "LPAREN"
    THEN LET lp == expect(toks, cur, "LPAREN") IN
         IF ~lp.ok THEN RoundRaised(lp)
         ELSE IF lp.cur >= Len(toks) THEN RoundRaised(PRaise(IndexError, lp.cur))
         ELSE LET args == IF Tok(toks, lp.cur).type # "RPAREN"
                          THEN Production("parse_arguments", toks, lp.cur, <<>>)
                          ELSE POk(<<>>, lp.cur)
              IN IF ~args.ok THEN RoundRaised(args)
                 ELSE LET rp == expect(toks, args.cur, "RPAREN") IN
                      IF ~rp.ok THEN RoundRaised(rp)
                      ELSE Round(ASTNode("FUNCTION_CALL", StrV(<<"(", ")">>), <<left>> \o args.val),
                                 rp.cur, FALSE)
    ELSE IF token.type \in {"INCREMENT", "DECREMENT"}
    THEN Round(ASTNode("POSTFIX_EXPRESSION", StrV(token.value), <<left>>), cur + 1, FALSE)
    ELSE IF token.type = "DOT"
    THEN LET d == expect(toks, cur, "DOT") IN
         IF ~d.ok THEN RoundRaised(d)
         ELSE LET member == expect(toks, d.cur, "IDENTIFIER") IN
         IF ~member.ok THEN RoundRaised(member)
         ELSE Round(ASTNode("MEMBER_ACCESS", StrV(<<".">>), <<left, member.val>>), member.cur, FALSE)
    ELSE IF token.type = "ARROW"
    THEN LET a == expect(toks, cur, "ARROW") IN
         IF ~a.ok THEN RoundRaised(a)
         ELSE LET member == expect(toks, a.cur, "IDENTIFIER") IN
         IF ~member.ok THEN RoundRaised(member)
         ELSE Round(ASTNode("POINTER_MEMBER_ACCESS", StrV(<<"-", ">">>), <<left, member.val>>),
                    member.cur, FALSE)
    ELSE Round(left, cur, TRUE)

Production(name, toks, cur, acc) ==
    CASE name = "parse_include" -> parse_include(toks, cur)
      [] name = "parse_define" -> parse_define(toks, cur)
      [] name = "parse_program" -> parse_program(toks, cur)
      [] name = "parse_declaration" -> parse_declaration(toks, cur)
      [] name = "parse_type_specifier" -> parse_type_specifier(toks, cur)
      [] name = "parse_struct_declaration" -> parse_struct_declaration(toks, cur)
      [] name = "parse_struct_member" -> parse_struct_member(toks, cur)
      [] name = "parse_declarator" -> parse_declarator(toks, cur)
      [] name = "parse_compound_statement" -> parse_compound_statement(toks, cur)
      [] name = "parse_break_statement" -> parse_break_statement(toks, cur)
      [] name = "parse_continue_statement" -> parse_continue_statement(toks, cur)
      [] name = "parse_statement" -> parse_statement(toks, cur)
      [] name = "parse_if_statement" -> parse_if_statement(toks, cur)
      [] name = "parse_for_statement" -> parse_for_statement(toks, cur)
      [] name = "parse_while_statement" -> parse_while_statement(toks, cur)
      [] name = "parse_do_while_statement" -> parse_do_while_statement(toks, cur)
      [] name = "parse_return_statement" -> parse_return_statement(toks, cur)
      [] name = "parse_variable_declaration" -> parse_variable_declaration(toks, cur)
      [] name = "parse_expression_statement" -> parse_expression_statement(toks, cur)
      [] name = "parse_expression" -> parse_expression(toks, cur)
      [] name = "parse_assignment_expression" -> parse_assignment_expression(toks, cur)
      [] name = "parse_logical_or_expression" -> parse_logical_or_expression(toks, cur)
      [] name = "parse_logical_and_expression" -> parse_logical_and_expression(toks, cur)
      [] name = "parse_equality_expression" -> parse_equality_expression(toks, cur)
      [] name = "parse_relational_expression" -> parse_relational_expression(toks, cur)
      [] name = "parse_shift_expression" -> parse_shift_expression(toks, cur)
      [] name = "parse_additive_expression" -> parse_additive_expression(toks, cur)
      [] name = "parse_multiplicative_expression" -> parse_multiplicative_expression(toks, cur)
      [] name = "parse_unary_expression" -> parse_unary_expression(toks, cur)
      [] name = "parse_postfix_expression" -> parse_postfix_expression(toks, cur)
      [] name = "parse_primary_expression" -> parse_primary_expression(toks, cur)
      [] name = "parse_program_loop" -> parse_program_loop(toks, cur, acc)
      [] name = "parse_struct_body" -> parse_struct_body(toks, cur, acc)
      [] name = "parse_parameters" -> parse_parameters(toks, cur, acc)
      [] name = "parse_compound_loop" -> parse_compound_loop(toks, cur, acc)
      [] name = "parse_logical_or_loop" -> parse_logical_or_loop(toks, cur, acc)
      [] name = "parse_logical_and_loop" -> parse_logical_and_loop(toks, cur, acc)
      [] name = "parse_equality_loop" -> parse_equality_loop(toks, cur, acc)
      [] name = "parse_relational_loop" -> parse_relational_loop(toks, cur, acc)
      [] name = "parse_shift_loop" -> parse_shift_loop(toks, cur, acc)
      [] name = "parse_additive_loop" -> parse_additive_loop(toks, cur, acc)
      [] name = "parse_multiplicative_loop" -> parse_multiplicative_loop(toks, cur, acc)
      [] name = "parse_arguments" -> parse_arguments(toks, cur, acc)
      [] name = "parse_postfix_loop" -> parse_postfix_loop(toks, cur, acc)
      [] name = "parse_program_round" -> parse_program_round(toks, cur, acc)
      [] name = "parse_struct_round" -> parse_struct_round(toks, cur, acc)
      [] name = "parse_parameters_round" -> parse_parameters_round(toks, cur, acc)
      [] name = "parse_compound_round" -> parse_compound_round(toks, cur, acc)
      [] name = "parse_arguments_round" -> parse_arguments_round(toks, cur, acc)
      [] name = "parse_postfix_round" -> parse_postfix_round(toks, cur, acc)

\* an except clause for the parser's own failures only
OwnExceptionClass == {"Exception"}

\* the classes `except Exception` catches, among those this code raises
ExceptionClasses == {"Exception", "IndexError", "ValueError", "AttributeError"}

\* ParseOutcome with an except clause that keeps no diagnostic
ParseOutcomeSilent(r) ==
    IF r.ok
    THEN [ret |-> r.val, errors |-> <<>>, current |-> r.cur, exc |-> NoExc, caught |-> NoExc]
    ELSE IF r.exc.exc \in ExceptionClasses
    THEN [ret |-> ASTNode("ERROR", Str(r.exc), <<>>), errors |-> <<>>,
          current |-> r.cur, exc |-> NoExc, caught |-> r.exc]
    ELSE [ret |-> NoneV, errors |-> <<>>, current |-> r.cur, exc |-> r.exc, caught |-> NoExc]

\* parse()'s try/except around parse_program, which ended as r: what parse
\* returns (ret), self.errors and self.current afterwards, the exception that
\* leaves it (exc) and the one it caught (caught)
ParseOutcome(r) ==
    IF r.ok
    THEN [ret |-> r.val, errors |-> <<>>, current |-> r.cur, exc |-> NoExc, caught |-> NoExc]
    ELSE IF r.exc.exc \in ExceptionClasses
    THEN [ret |-> ASTNode("ERROR", Str(r.exc), <<>>),
          errors |-> <<[cls |-> "str", prefix |-> "Parser Error: ", message |-> Str(r.exc).message]>>,
          current |-> r.cur, exc |-> NoExc, caught |-> r.exc]
    ELSE [ret |-> NoneV, errors |-> <<>>, current |-> r.cur, exc |-> r.exc, caught |-> NoExc]

\* Parser(tokens).parse()
parse(toks) == ParseOutcome(Production("parse_program", toks, 0, NoneV))

\* Parser(tokens): self.tokens = tokens; self.current = 0; self.errors = []
NewParser(tokens) == [cls |-> "Parser", tokens |-> tokens, current |-> 0, errors |-> <<>>]

\* what a call of parse() on the Parser p returns or raises and the Parser it
\* leaves, where r is what the call's parse_program came to
ParserAfter(p, r) ==
    [cls |-> "call", ret |-> r.ret, exc |-> r.exc,
     parser |-> [p EXCEPT !.current = r.current, !.errors = p.errors \o r.errors]]

\* p.parse() on a Parser p in whatever state earlier calls left it:
\* parse_program starts at self.current and the diagnostic joins self.errors
ParserParse(p) ==
    ParserAfter(p, ParseOutcome(Production("parse_program", p.tokens.items, p.current, NoneV)))

(***************************************************************************)
(* One round of a loop of the parser, by the loop's name.                  *)
(***************************************************************************)
LoopBody(name, toks, cur, acc) ==
    CASE name = "program" -> Production("parse_program_round", toks, cur, acc)
      [] name = "struct_body" -> Production("parse_struct_round", toks, cur, acc)
      [] name = "parameters" -> Production("parse_parameters_round", toks, cur, acc)
      [] name = "compound" -> Production("parse_compound_round", toks, cur, acc)
      [] name = "arguments" -> Production("parse_arguments_round", toks, cur, acc)
      [] name = "postfix" -> Production("parse_postfix_round", toks, cur, acc)

(***************************************************************************)
(* The analyzer (c_compiler.py)                                            *)
(***************************************************************************)
Unknown == StrV(<<"u", "n", "k", "n", "o", "w", "n">>)

\* the record analyze_code starts from; parse_error = NoExc: the key is absent
NewAnalysis(source_code) ==
    [functions |-> <<>>, variables |-> <<>>, includes |-> <<>>, defines |-> <<>>,
     structures |-> <<>>, comments |-> <<>>,
     lines |-> Cardinality({i \in 1..Len(source_code) : source_code[i] = "\n"}) + 1,
     complexity |-> 0, parse_error |-> NoExc]

\* the name a declaration node reports: its first child's value when that
\* child is a declarator of the wanted kind, else "unknown"
DeclaredName(node, declarator_type) ==
    IF Len(node.children) > 0 /\ node.children[1].node_type = declarator_type
    THEN node.children[1].value
    ELSE Unknown

\* obj.value: a Token's value is a str, a node's value is whatever it carries
ValueOf(obj) == IF obj.cls = "Token" THEN StrV(obj.value) ELSE obj.value

extract_parameters(node) ==
    IF Len(node.children) > 0
       /\ node.children[1].node_type = "FUNCTION_DECLARATOR"
       /\ Len(node.children[1].children) > 0
    THEN LET params == SelectSeq(node.children[1].children, LAMBDA param : param.node_type = "PARAMETER")
         IN [i \in 1..Len(params) |->
                [type |-> params[i].value,
                 name |-> IF Len(params[i].children) > 0 THEN ValueOf(params[i].children[1]) ELSE NoneV]]
    ELSE <<>>

\* what analyze_ast records for the node itself, before it goes into the children
Record(node, analysis) ==
    LET t == node.node_type IN
    IF t = "FUNCTION_DEFINITION"
    THEN [analysis EXCEPT
            !.functions = Append(@, [name |-> DeclaredName(node, "FUNCTION_DECLARATOR"),
                                     type |-> node.value,
                                     parameters |-> extract_parameters(node),
                                     has_body |-> TRUE]),
            !.complexity = @ + 1]
    ELSE IF t = "FUNCTION_DECLARATION"
    THEN [analysis EXCEPT
            !.functions = Append(@, [name |-> DeclaredName(node, "FUNCTION_DECLARATOR"),
                                     type |-> node.value,
                                     parameters |-> extract_parameters(node),
                                     has_body |-> FALSE])]
    ELSE IF t = "VARIABLE_DECLARATION"
    THEN [analysis EXCEPT
            !.variables = Append(@, [name |-> DeclaredName(node, "VARIABLE_DECLARATOR"),
                                     type |-> node.value])]
    ELSE IF t = "INCLUDE"
    THEN [analysis EXCEPT !.includes = Append(@, node.value)]
    ELSE IF t = "DEFINE"
    THEN [analysis EXCEPT
            !.defines = Append(@, [name |-> node.value,
                                   value |-> IF Len(node.children) > 0
                                             THEN node.children[1].value ELSE NoneV])]
    ELSE IF t = "STRUCT_DEFINITION"
    THEN [analysis EXCEPT
            !.structures = Append(@, [name |-> node.value, members |-> Len(node.children)])]
    ELSE IF t = "COMMENT"
    THEN [analysis EXCEPT !.comments = Append(@, node.value)]
    ELSE IF t \in {"IF_STATEMENT", "FOR_STATEMENT", "WHILE_STATEMENT", "DO_WHILE_STATEMENT"}
    THEN [analysis EXCEPT !.complexity = @ + 1]
    ELSE analysis

\* analyze_ast(node, analysis): the record as the traversal leaves it and the
\* exception that ended it, if any.  node.node_type on an object that is no
\* ASTNode (None, a Token) raises AttributeError.
RECURSIVE analyze_ast(_, _)
RECURSIVE analyze_children(_, _, _)
analyze_ast(node, analysis) ==
    IF node.cls # "ASTNode"
    THEN [analysis |-> analysis, exc |-> AttributeError(node.cls, "node_type")]
    ELSE analyze_children(node.children, 1, Record(node, analysis))

\* for child in node.children: self.analyze_ast(child, analysis), from the i-th on
analyze_children(children, i, analysis) ==
    IF i > Len(children) THEN [analysis |-> analysis, exc |-> NoExc]
    ELSE LET r == analyze_ast(children[i], analysis) IN
         IF r.exc # NoExc THEN r ELSE analyze_children(children, i + 1, r.analysis)

\* analyze_code(source_code) as a function: the record it returns
analyze_code(source_code) ==
    LET analysis == NewAnalysis(source_code)
        lexed == tokenize(source_code)
    IN IF ~lexed.ok THEN [analysis EXCEPT !.parse_error = Str(lexed.exc)]
       ELSE LET parsed == parse(lexed.tokens) IN
            IF parsed.exc # NoExc THEN [analysis EXCEPT !.parse_error = Str(parsed.exc)]
            ELSE LET r == analyze_ast(parsed.ret, analysis) IN
                 IF r.exc # NoExc THEN [r.analysis EXCEPT !.parse_error = Str(r.exc)]
                 ELSE r.analysis

(***************************************************************************)
(* The source texts analyze_code is called with: every prefix of a set of  *)
(* programs (a truncated program is the typical malformed input), every    *)
(* string of at most MaxChars characters of Alphabet, and every            *)
(* concatenation of at most MaxFrags fragments of Vocabulary.              *)
(***************************************************************************)
\* the end-to-end scenario of the specification:
\*   #include <stdio.h>\nint add(int a, int b) {\n    if (a > b) { return a; }\n    return b;\n}
EndToEndSource ==
    <<"#", "i", "n", "c", "l", "u", "d", "e", " ", "<", "s", "t", "d", "i", "o", ".", "h", ">",
      "\n", "i", "n", "t", " ", "a", "d", "d", "(", "i", "n", "t", " ", "a", ",", " ", "i",
      "n", "t", " ", "b", ")", " ", "{", "\n", " ", " ", " ", " ", "i", "f", " ", "(", "a",
      " ", ">", " ", "b", ")", " ", "{", " ", "r", "e", "t", "u", "r", "n", " ", "a", ";", " ",
      "}", "\n", " ", " ", " ", " ", "r", "e", "t", "u", "r", "n", " ", "b", ";", "\n", "}">>

\* one function definition holding one if and one while:
\*   int f() { if (a) { } while (a) { } }
IfWhileSource ==
    <<"i", "n", "t", " ", "f", "(", ")", " ", "{", " ", "i", "f", " ", "(", "a", ")", " ", "{",
      " ", "}", " ", "w", "h", "i", "l", "e", " ", "(", "a", ")", " ", "{", " ", "}", " ", "}">>

\* a struct with an int member and a long member:
\*   struct P { int x; long y; } p;
StructLongSource ==
    <<"s", "t", "r", "u", "c", "t", " ", "P", " ", "{", " ", "i", "n", "t", " ", "x", ";", " ",
      "l", "o", "n", "g", " ", "y", ";", " ", "}", " ", "p", ";">>

\* a struct with an int member and a struct member:
\*   struct P { int x; struct Q q; } p;
StructNestedSource ==
    <<"s", "t", "r", "u", "c", "t", " ", "P", " ", "{", " ", "i", "n", "t", " ", "x", ";", " ",
      "s", "t", "r", "u", "c", "t", " ", "Q", " ", "q", ";", " ", "}", " ", "p", ";">>

\* a struct with an int member and a pointer member:
\*   struct P { int x; char *p; } p;
StructPointerSource ==
    <<"s", "t", "r", "u", "c", "t", " ", "P", " ", "{", " ", "i", "n", "t", " ", "x", ";", " ",
      "c", "h", "a", "r", " ", "*", "p", ";", " ", "}", " ", "p", ";">>

\* a prototype with a named parameter:
\*   int f(int a);
PrototypeSource ==
    <<"i", "n", "t", " ", "f", "(", "i", "n", "t", " ", "a", ")", ";">>

\* a macro whose replacement is a member access:
\*   #define X a.b
DefineMemberSource ==
    <<"#", "d", "e", "f", "i", "n", "e", " ", "X", " ", "a", ".", "b">>

\* for, break, do-while:
\*   int f() { for (;;) break; do { x--; } while (x > 0); }
LoopsSource ==
    <<"i", "n", "t", " ", "f", "(", ")", " ", "{", " ", "f", "o", "r", " ", "(", ";", ";", ")",
      " ", "b", "r", "e", "a", "k", ";", " ", "d", "o", " ", "{", " ", "x", "-", "-", ";", " ",
      "}", " ", "w", "h", "i", "l", "e", " ", "(", "x", " ", ">", " ", "0", ")", ";", " ", "}">>

\* one operator of every binary layer:
\*   int f() { x = a || b && c == d < e << f + g * -h; }
LadderSource ==
    <<"i", "n", "t", " ", "f", "(", ")", " ", "{", " ", "x", " ", "=", " ", "a", " ", "|", "|",
      " ", "b", " ", "&", "&", " ", "c", " ", "=", "=", " ", "d", " ", "<", " ", "e", " ", "<",
      "<", " ", "f", " ", "+", " ", "g", " ", "*", " ", "-", "h", ";", " ", "}">>

\* call, index and pointer member access:
\*   int f() { return f(1, 2)[3]->m; }
PostfixSource ==
    <<"i", "n", "t", " ", "f", "(", ")", " ", "{", " ", "r", "e", "t", "u", "r", "n", " ", "f",
      "(", "1", ",", " ", "2", ")", "[", "3", "]", "-", ">", "m", ";", " ", "}">>

\* if with else:
\*   int f() { if (a) b; else c; }
IfElseSource ==
    <<"i", "n", "t", " ", "f", "(", ")", " ", "{", " ", "i", "f", " ", "(", "a", ")", " ", "b",
      ";", " ", "e", "l", "s", "e", " ", "c", ";", " ", "}">>

\* a quoted include, a macro with a value, a variable:
\*   #include "a.h"\n#define N 10\nint x;\n
DirectivesSource ==
    <<"#", "i", "n", "c", "l", "u", "d", "e", " ", "\"", "a", ".", "h", "\"", "\n", "#", "d",
      "e", "f", "i", "n", "e", " ", "N", " ", "1", "0", "\n", "i", "n", "t", " ", "x", ";", "\n">>

\* a number run that is no float literal:
\*   int f() { x = 12ab; }
BadNumberSource ==
    <<"i", "n", "t", " ", "f", "(", ")", " ", "{", " ", "x", " ", "=", " ", "1", "2", "a", "b",
      ";", " ", "}">>

\* comments, literals and an unknown character:
\*   /* c */ int x; // d\n"s" 'c' @
LiteralsSource ==
    <<"/", "*", " ", "c", " ", "*", "/", " ", "i", "n", "t", " ", "x", ";", " ", "/", "/", " ",
      "d", "\n", "\"", "s", "\"", " ", "'", "c", "'", " ", "@">>

\* an unknown directive, a directive after blanks, a macro without value:
\*   #pragma x\n# define Y\n
HashSource ==
    <<"#", "p", "r", "a", "g", "m", "a", " ", "x", "\n", "#", " ", "d", "e", "f", "i", "n",
      "e", " ", "Y", "\n">>

\* a parameter without a name, while, continue, a character:
\*   void g(char c, float) { while (1) continue; y = 'c'; }
ParamsSource ==
    <<"v", "o", "i", "d", " ", "g", "(", "c", "h", "a", "r", " ", "c", ",", " ", "f", "l", "o",
      "a", "t", ")", " ", "{", " ", "w", "h", "i", "l", "e", " ", "(", "1", ")", " ", "c", "o",
      "n", "t", "i", "n", "u", "e", ";", " ", "y", " ", "=", " ", "'", "c", "'", ";", " ", "}">>

\* prefix and postfix operators, a nested block, a local variable:
\*   int f() { x = ++a; x = ~b--; x <<= 1; x = (a); int v; { } }
UnarySource ==
    <<"i", "n", "t", " ", "f", "(", ")", " ", "{", " ", "x", " ", "=", " ", "+", "+", "a", ";",
      " ", "x", " ", "=", " ", "~", "b", "-", "-", ";", " ", "x", " ", "<", "<", "=", " ", "1",
      ";", " ", "x", " ", "=", " ", "(", "a", ")", ";", " ", "i", "n", "t", " ", "v", ";", " ",
      "{", " ", "}", " ", "}">>

\* operators and delimiters of every length:
\*   a <<= b >>= c ++ -- -> != <= >= += && || ! ~ ^ % [ ] : , | &
OperatorsSource ==
    <<"a", " ", "<", "<", "=", " ", "b", " ", ">", ">", "=", " ", "c", " ", "+", "+", " ", "-",
      "-", " ", "-", ">", " ", "!", "=", " ", "<", "=", " ", ">", "=", " ", "+", "=", " ", "&",
      "&", " ", "|", "|", " ", "!", " ", "~", " ", "^", " ", "%", " ", "[", " ", "]", " ", ":",
      " ", ",", " ", "|", " ", "&">>

\* float literals and a string:
\*   int f() { x = 1.5e2; x = "s"; }
FloatsSource ==
    <<"i", "n", "t", " ", "f", "(", ")", " ", "{", " ", "x", " ", "=", " ", "1", ".", "5", "e",
      "2", ";", " ", "x", " ", "=", " ", "\"", "s", "\"", ";", " ", "}">>

\* two declarations on two lines:
\*   int x;\nint y;
TwoLinesSource ==
    <<"i", "n", "t", " ", "x", ";", "\n", "i", "n", "t", " ", "y", ";">>

\* a prototype without parameters:
\*   int f();
EmptyPrototypeSource ==
    <<"i", "n", "t", " ", "f", "(", ")", ";">>

\* a function whose body starts on the next line:
\*   int f()\n{ }
NewlineBodySource ==
    <<"i", "n", "t", " ", "f", "(", ")", "\n", "{", " ", "}">>

\* an if whose statement is on the next line:
\*   int f() { if (a)\nb; }
IfNewlineSource ==
    <<"i", "n", "t", " ", "f", "(", ")", " ", "{", " ", "i", "f", " ", "(", "a", ")", "\n",
      "b", ";", " ", "}">>

\* a macro without replacement text, on a line of its own:
\*   #define X\n
BareDefineSource ==
    <<"#", "d", "e", "f", "i", "n", "e", " ", "X", "\n">>

\* operators that begin other operators, the last one at the end of the source:
\*   a+++b<<=c>>=d->e<<=
MunchSource ==
    <<"a", "+", "+", "+", "b", "<", "<", "=", "c", ">", ">", "=", "d", "-", ">", "e", "<",
      "<", "=">>

\* a word that is no directive after #, and a block comment that is not closed:
\*   #  x /* a
RewindSource ==
    <<"#", " ", " ", "x", " ", "/", "*", " ", "a">>

\* a struct definition between two comments:
\*   // c\nstruct s { int a; } v; /* d */
StructCommentSource ==
    <<"/", "/", " ", "c", "\n", "s", "t", "r", "u", "c", "t", " ", "s", " ", "{", " ", "i",
      "n", "t", " ", "a", ";", " ", "}", " ", "v", ";", " ", "/", "*", " ", "d", " ", "*",
      "/">>

\* a declaration, a function whose parameter ends the traversal, and a declaration after it:
\*   int y;\nint f(int a) { }\nint x;
FailureSource ==
    <<"i", "n", "t", " ", "y", ";", "\n", "i", "n", "t", " ", "f", "(", "i", "n", "t", " ",
      "a", ")", " ", "{", " ", "}", "\n", "i", "n", "t", " ", "x", ";">>

Programs ==
    {EndToEndSource, IfWhileSource, StructLongSource, StructNestedSource,
     StructPointerSource, PrototypeSource, DefineMemberSource, LoopsSource,
     LadderSource, PostfixSource, IfElseSource, DirectivesSource,
     BadNumberSource, LiteralsSource, HashSource, ParamsSource,
     UnarySource, OperatorsSource, FloatsSource, TwoLinesSource, EmptyPrototypeSource,
     NewlineBodySource, IfNewlineSource, BareDefineSource, MunchSource, RewindSource,
     StructCommentSource, FailureSource}

MaxChars == 2

MaxFrags == 2

Alphabet == {"a", "1", " ", "\n", "\"", "'", "/", "*", "#", "=", "<", "@"}

Vocabulary ==
    {<<"i", "n", "t", " ">>, <<"x">>, <<"(">>, <<")">>, <<"{">>, <<"}">>, <<";">>, <<",">>,
     <<"i", "f">>, <<"s", "t", "r", "u", "c", "t", " ">>, <<"#", "d", "e", "f", "i", "n", "e", " ">>,
     <<".">>, <<"1">>, <<"\n">>}

Prefixes(s) == {SubSeq(s, 1, n) : n \in 0..Len(s)}

\* the concatenations of at most n elements of `pieces`
RECURSIVE Concatenations(_, _)
Concatenations(pieces, n) ==
    IF n = 0 THEN {<<>>}
    ELSE LET shorter == Concatenations(pieces, n - 1) IN
         shorter \cup {s \o piece : s \in shorter, piece \in pieces}

Sources ==
    UNION {Prefixes(program) : program \in Programs}
    \cup Concatenations({<<c>> : c \in Alphabet}, MaxChars)
    \cup Concatenations(Vocabulary, MaxFrags)

(***************************************************************************)
(* The state machine: one CCompiler, one call of analyze_code.             *)
(*                                                                         *)
(*   pc         where the call stands: "idle" (not called yet), "tokenize" *)
(*              (in the scan loop), "parse", "analyze_ast", "return"       *)
(*   source     the call's argument                                        *)
(*   current, line, column, lexTokens                                      *)
(*              tokenize's local variables                                 *)
(*   starts     for each token of lexTokens / tokens, the source offset    *)
(*              at which its lexeme starts (history, not in the code)      *)
(*   tokens     analyze_code's local `tokens`: None until tokenize returns *)
(*   parser     self.parser: None, or the Parser's tokens/current/errors   *)
(*   ast        analyze_code's local `ast`                                 *)
(*   caught     the exception Parser.parse caught (history)                *)
(*   analysis   the analysis record                                        *)
(*   calls      the operations invoked so far, in order (history)          *)
(*   again      what a second tokenize(source) returned, once the call is  *)
(*              over: None, or the lexer it ran on and its outcome         *)
(*   reparse    what a second self.parser.parse() returned, once the call  *)
(*              is over: None, or its outcome and the Parser it leaves     *)
(*                                                                         *)
(* Calls of analyze_code from several threads (ConcurrentSpec):            *)
(*   threads    for each thread, where its call stands and the call's      *)
(*              locals source_code, tokens, ast and analysis               *)
(*   compilers  for each CCompiler, its field self.parser: 0 (None) or     *)
(*              the Parser object it refers to                             *)
(*   parsers    the Parser objects, each named after the thread that       *)
(*              constructed it: None (not constructed) or its fields       *)
(*                                                                         *)
(* parse_expression on its own (ExpressionSpec):                           *)
(*   expression None, or the tokens of an expression and what              *)
(*              parse_expression returned for them (None: not called yet)  *)
(*                                                                         *)
(* One loop of the parser on its own (LoopSpec):                           *)
(*   loop       None, or the loop, the parser's tokens, the cursor and     *)
(*              what the loop has collected at the head of a round, the    *)
(*              cursor it was entered with and the rounds gone through     *)
(*              (history), and where it stands: "head", "exit", "raised"   *)
(*                                                                         *)
(* analyze_ast call by call (WalkSpec):                                    *)
(*   walk       None, or the tree, the objects whose analyze_ast call is   *)
(*              still to come (the next one first), the analysis record,   *)
(*              the objects visited so far (history) and where the         *)
(*              traversal stands: "walking", "done", "raised"              *)
(***************************************************************************)
VARIABLES pc, source, current, line, column, lexTokens, starts, tokens,
          parser, ast, caught, analysis, calls,
          again, reparse, threads, compilers, parsers, expression, loop, walk

pipelineVars == <<pc, source, current, line, column, lexTokens, starts, tokens,
                  parser, ast, caught, analysis, calls>>

repeatVars == <<again, reparse>>

concurrentVars == <<threads, compilers, parsers>>

\* the state of the studies of one part of the pipeline on its own
studyVars == <<expression, loop, walk>>

vars == <<pipelineVars, repeatVars, concurrentVars, studyVars>>

Threads == {1, 2}

Compilers == {1, 2}

\* a thread that has not called analyze_code
IdleThread ==
    [pc |-> "idle", compiler |-> 0, source |-> <<>>, tokens |-> NoneV, ast |-> NoneV,
     analysis |-> NoneV]

lexVars == <<current, line, column, lexTokens, starts>>

Init ==
    /\ pc = "idle"
    /\ source = <<>>
    /\ current = 0
    /\ line = 1
    /\ column = 1
    /\ lexTokens = <<>>
    /\ starts = <<>>
    /\ tokens = NoneV
    /\ parser = NoneV
    /\ ast = NoneV
    /\ caught = NoExc
    /\ analysis = NoneV
    /\ calls = <<>>
    /\ again = NoneV
    /\ reparse = NoneV
    /\ threads = [t \in Threads |-> IdleThread]
    /\ compilers = [c \in Compilers |-> [parser |-> 0]]
    /\ parsers = [t \in Threads |-> NoneV]
    /\ expression = NoneV
    /\ loop = NoneV
    /\ walk = NoneV

\* NextStage without the try block: the next stage runs whatever happened
NextStageRegardless(stage, raised) ==
    CASE stage = "tokenize" -> "parse"
      [] stage = "parse" -> "analyze_ast"
      [] OTHER -> "return"

\* analyze_code's try block: the stage that follows `stage`, which returned or
\* raised; an exception anywhere goes to the except clause, then return
NextStage(stage, raised) ==
    IF raised THEN "return"
    ELSE CASE stage = "tokenize" -> "parse"
           [] stage = "parse" -> "analyze_ast"
           [] OTHER -> "return"

\* OnException that answers with a new record holding the message only
OnExceptionFresh(record, e) == [NewAnalysis(<<>>) EXCEPT !.parse_error = Str(e)]

\* except Exception as e: analysis['parse_error'] = str(e)
OnException(record, e) == [record EXCEPT !.parse_error = Str(e)]

\* TokenizeEntry for locals that live on from call to call
TokenizeEntryLeft(left) == left

\* tokens = []; current = 0; line = 1; column = 1: the locals tokenize
\* starts from, whatever values `left` an earlier call ended with
TokenizeEntry(left) == [tokens |-> <<>>, current |-> 0, line |-> 1, column |-> 1]

\* the locals of tokenize as the state holds them
TokenizeLocals == [tokens |-> lexTokens, current |-> current, line |-> line, column |-> column]

\* analyze_code(source_code) is called: the record is created and tokenize entered
Call(source_code) ==
    /\ pc = "idle"
    /\ source' = source_code
    /\ analysis' = NewAnalysis(source_code)
    /\ pc' = "tokenize"
    /\ calls' = Append(calls, "tokenize")
    /\ current' = TokenizeEntry(TokenizeLocals).current
    /\ line' = TokenizeEntry(TokenizeLocals).line
    /\ column' = TokenizeEntry(TokenizeLocals).column
    /\ lexTokens' = TokenizeEntry(TokenizeLocals).tokens
    /\ starts' = <<>>
    /\ UNCHANGED <<tokens, parser, ast, caught>>
    /\ UNCHANGED <<repeatVars, concurrentVars, studyVars>>

\* the scan loop is at the head of an iteration that takes branch b
AtBranch(b) ==
    /\ pc = "tokenize"
    /\ current < Len(source)
    /\ Branch(source, current) = b

\* one iteration of the scan loop
Scan ==
    /\ LET st == ScanStep(source, current, line, column) IN
       IF st.exc = NoExc
       THEN /\ current' = st.current
            /\ line' = st.line
            /\ column' = st.column
            /\ lexTokens' = lexTokens \o st.out
            /\ starts' = starts \o st.at
            /\ UNCHANGED <<pc, analysis>>
       ELSE /\ pc' = NextStage("tokenize", TRUE)
            /\ analysis' = OnException(analysis, st.exc)
            /\ lexTokens' = <<>>
            /\ starts' = <<>>
            /\ UNCHANGED <<current, line, column>>
    /\ UNCHANGED <<source, tokens, parser, ast, caught, calls>>
    /\ UNCHANGED <<repeatVars, concurrentVars, studyVars>>

ScanSpace == AtBranch("whitespace") /\ Scan

ScanLine == AtBranch("line_comment") /\ Scan

ScanBlock == AtBranch("block_comment") /\ Scan

ScanStr == AtBranch("string") /\ Scan

ScanChr == AtBranch("character") /\ Scan

ScanNum == AtBranch("number") /\ Scan

ScanWord == AtBranch("identifier") /\ Scan

ScanHash == AtBranch("preprocessor") /\ Scan

ScanOp3 == AtBranch("operator3") /\ Scan

ScanOp2 == AtBranch("operator2") /\ Scan

ScanOp1 == AtBranch("operator1") /\ Scan

ScanDelim == AtBranch("delimiter") /\ Scan

ScanBad == AtBranch("unknown") /\ Scan

\* the scan loop ends: EOF is appended and tokenize returns to analyze_code
TokenizeReturn ==
    /\ pc = "tokenize"
    /\ current >= Len(source)
    /\ tokens' = ListV(EndOfInput(lexTokens, line, column))
    /\ starts' = Append(starts, current)
    /\ lexTokens' = <<>>
    /\ pc' = NextStage("tokenize", FALSE)
    /\ UNCHANGED <<source, current, line, column, parser, ast, caught, analysis, calls>>
    /\ UNCHANGED <<repeatVars, concurrentVars, studyVars>>

\* ParseReturn that copies the diagnostic parse() kept into the record
ParseReturnReported(r) ==
    /\ parser' = [cls |-> "Parser", tokens |-> tokens, current |-> r.current,
                  errors |-> r.errors]
    /\ caught' = r.caught
    /\ IF r.exc = NoExc
       THEN /\ ast' = r.ret
            /\ analysis' = IF r.caught # NoExc THEN OnException(analysis, r.caught) ELSE analysis
       ELSE /\ analysis' = OnException(analysis, r.exc)
            /\ UNCHANGED ast
    /\ pc' = NextStage("parse", r.exc # NoExc)

\* analyze_code after self.parser.parse() ended as r
ParseReturn(r) ==
    /\ parser' = [cls |-> "Parser", tokens |-> tokens, current |-> r.current,
                  errors |-> r.errors]
    /\ caught' = r.caught
    /\ IF r.exc = NoExc
       THEN /\ ast' = r.ret
            /\ UNCHANGED analysis
       ELSE /\ analysis' = OnException(analysis, r.exc)
            /\ UNCHANGED ast
    /\ pc' = NextStage("parse", r.exc # NoExc)

\* self.parser = Parser(tokens); ast = self.parser.parse()
Parse ==
    /\ pc = "parse"
    /\ tokens # NoneV
    /\ ParseReturn(parse(tokens.items))
    /\ calls' = Append(calls, "parse")
    /\ UNCHANGED <<source, current, line, column, lexTokens, starts, tokens>>
    /\ UNCHANGED <<repeatVars, concurrentVars, studyVars>>

\* analyze_code after self.analyze_ast(ast, analysis) ended as r
AnalyzeAstReturn(r) ==
    /\ analysis' = IF r.exc = NoExc THEN r.analysis ELSE OnException(r.analysis, r.exc)
    /\ pc' = NextStage("analyze_ast", r.exc # NoExc)

\* self.analyze_ast(ast, analysis)
AnalyzeAst ==
    /\ pc = "analyze_ast"
    /\ ast # NoneV
    /\ AnalyzeAstReturn(analyze_ast(ast, analysis))
    /\ calls' = Append(calls, "analyze_ast")
    /\ UNCHANGED <<source, current, line, column, lexTokens, starts, tokens, parser, ast, caught>>
    /\ UNCHANGED <<repeatVars, concurrentVars, studyVars>>

\* what a further call of tokenize on `lexer` came to, r being its scan loop
AgainOutcome(lexer, r) ==
    [cls |-> "call", lexer |-> lexer, ok |-> r.ok, tokens |-> r.tokens, exc |-> r.exc]

\* once analyze_code is over, tokenize(source) is called again, on the
\* compiler's LexicalAnalyzer ("same") or on another instance ("new"), whose
\* tables __init__ builds from the same literals
TokenizeAgain(lexer) ==
    /\ pc = "return"
    /\ again = NoneV
    /\ reparse = NoneV
    /\ LET entry == TokenizeEntry(TokenizeLocals) IN
       again' = AgainOutcome(lexer, ScanLoop(source, entry.current, entry.line, entry.column,
                                             entry.tokens, <<>>))
    /\ UNCHANGED <<pipelineVars, reparse, concurrentVars, studyVars>>

\* once analyze_code is over, parse() is called again on the Parser it left
\* in self.parser
ParseAgain ==
    /\ pc = "return"
    /\ parser # NoneV
    /\ again = NoneV
    /\ reparse = NoneV
    /\ reparse' = ParserParse(parser)
    /\ UNCHANGED <<pipelineVars, again, concurrentVars, studyVars>>

Next ==
    \/ \E s \in Sources : Call(s)
    \/ ScanSpace \/ ScanLine \/ ScanBlock \/ ScanStr \/ ScanChr \/ ScanNum
    \/ ScanWord \/ ScanHash \/ ScanOp3 \/ ScanOp2 \/ ScanOp1 \/ ScanDelim \/ ScanBad
    \/ TokenizeReturn
    \/ Parse
    \/ AnalyzeAst
    \/ \E lexer \in {"same", "new"} : TokenizeAgain(lexer)
    \/ ParseAgain

Spec == Init /\ [][Next]_vars

(***************************************************************************)
(* analyze_code called from several threads, each on one of the            *)
(* CCompilers.  A thread's tokens, ast and analysis are locals of its      *)
(* call; the lexer's tables are only read; self.parser is a field of the   *)
(* CCompiler, written and then read again on the next line.  The steps     *)
(* are the statements of the try block; parse() is taken as one step, so   *)
(* the behaviours here are among those the threads can show.               *)
(***************************************************************************)
\* one declaration:
\*   int x;
DeclarationSource == <<"i", "n", "t", " ", "x", ";">>

\* one function with an empty body:
\*   int f() { }
EmptyFunctionSource == <<"i", "n", "t", " ", "f", "(", ")", " ", "{", " ", "}">>

\* the sources of the concurrent calls: two programs, one the parser rejects
\* (int) and one the lexer rejects (")
ConcurrentSources == {DeclarationSource, EmptyFunctionSource, <<"i", "n", "t">>, <<"\"">>}

\* thread t calls analyze_code(source_code) on CCompiler c
ThreadCall(t, c, source_code) ==
    /\ threads[t].pc = "idle"
    /\ threads' = [threads EXCEPT ![t] =
                     [pc |-> "tokenize", compiler |-> c, source |-> source_code,
                      tokens |-> NoneV, ast |-> NoneV, analysis |-> NewAnalysis(source_code)]]
    /\ UNCHANGED <<compilers, parsers>>
    /\ UNCHANGED <<pipelineVars, repeatVars, studyVars>>

\* thread t after self.lexer.tokenize(source_code) ended as lexed
ThreadTokenized(t, lexed) ==
    threads' = [threads EXCEPT ![t] =
                  IF lexed.ok
                  THEN [@ EXCEPT !.tokens = ListV(lexed.tokens),
                                 !.pc = NextStage("tokenize", FALSE)]
                  ELSE [@ EXCEPT !.analysis = OnException(@, lexed.exc),
                                 !.pc = NextStage("tokenize", TRUE)]]

\* tokens = self.lexer.tokenize(source_code)
ThreadTokenize(t) ==
    /\ threads[t].pc = "tokenize"
    /\ ThreadTokenized(t, tokenize(threads[t].source))
    /\ UNCHANGED <<compilers, parsers>>
    /\ UNCHANGED <<pipelineVars, repeatVars, studyVars>>

\* self.parser = Parser(tokens)
ThreadConstruct(t) ==
    /\ threads[t].pc = "parse"
    /\ parsers' = [parsers EXCEPT ![t] = NewParser(threads[t].tokens)]
    /\ compilers' = [compilers EXCEPT ![threads[t].compiler].parser = t]
    /\ threads' = [threads EXCEPT ![t].pc = "parse_call"]
    /\ UNCHANGED <<pipelineVars, repeatVars, studyVars>>

\* thread t after parse() on the Parser object p ended as r
ThreadParsed(t, p, r) ==
    /\ parsers' = [parsers EXCEPT ![p] = r.parser]
    /\ threads' = [threads EXCEPT ![t] =
                     IF r.exc = NoExc
                     THEN [@ EXCEPT !.ast = r.ret, !.pc = NextStage("parse", FALSE)]
                     ELSE [@ EXCEPT !.analysis = OnException(@, r.exc),
                                    !.pc = NextStage("parse", TRUE)]]

\* ast = self.parser.parse(): the field is read, then parse() runs on the
\* Parser it refers to
ThreadParse(t) ==
    /\ threads[t].pc = "parse_call"
    /\ ThreadParsed(t, compilers[threads[t].compiler].parser,
                    ParserParse(parsers[compilers[threads[t].compiler].parser]))
    /\ UNCHANGED compilers
    /\ UNCHANGED <<pipelineVars, repeatVars, studyVars>>

\* thread t after self.analyze_ast(ast, analysis) ended as r
ThreadAnalyzed(t, r) ==
    threads' = [threads EXCEPT ![t] =
                  [@ EXCEPT !.analysis = IF r.exc = NoExc THEN r.analysis
                                         ELSE OnException(r.analysis, r.exc),
                            !.pc = NextStage("analyze_ast", r.exc # NoExc)]]

\* self.analyze_ast(ast, analysis)
ThreadAnalyze(t) ==
    /\ threads[t].pc = "analyze_ast"
    /\ ThreadAnalyzed(t, analyze_ast(threads[t].ast, threads[t].analysis))
    /\ UNCHANGED <<compilers, parsers>>
    /\ UNCHANGED <<pipelineVars, repeatVars, studyVars>>

ConcurrentNext ==
    \/ \E t \in Threads, c \in Compilers, s \in ConcurrentSources : ThreadCall(t, c, s)
    \/ \E t \in Threads : ThreadTokenize(t)
    \/ \E t \in Threads : ThreadConstruct(t)
    \/ \E t \in Threads : ThreadParse(t)
    \/ \E t \in Threads : ThreadAnalyze(t)

ConcurrentSpec == Init /\ [][ConcurrentNext]_vars

(***************************************************************************)
(* parse_expression on its own, applied to the tokens of expressions of    *)
(* three operands and two binary operators, or of two operands, one of     *)
(* them under a prefix operator, and one binary operator.                  *)
(***************************************************************************)
\* binary operators, at least one of every layer of the ladder
ExpressionOperators ==
    {<<"=">>, <<"+", "=">>, <<"|", "|">>, <<"&", "&">>, <<"=", "=">>, <<"!", "=">>, <<"<">>,
     <<">", "=">>, <<"<", "<">>, <<"+">>, <<"-">>, <<"*">>, <<"/">>}

\* prefix operators
PrefixOperators == {<<"-">>, <<"!">>}

\* operand operator operand, the operator between spaces
Binary(left, operator, right) == left \o <<" ">> \o operator \o <<" ">> \o right

ExpressionSources ==
    {Binary(Binary(<<"a">>, o1, <<"b">>), o2, <<"c">>) :
        o1 \in ExpressionOperators, o2 \in ExpressionOperators}
    \cup {Binary(p \o <<"a">>, o, <<"b">>) : p \in PrefixOperators, o \in ExpressionOperators}
    \cup {Binary(<<"a">>, o, p \o <<"b">>) : p \in PrefixOperators, o \in ExpressionOperators}

\* the tokens of an expression are at hand
ChooseExpression(text) ==
    /\ expression = NoneV
    /\ expression' = [cls |-> "call", tokens |-> ListV(tokenize(text).tokens), result |-> NoneV]
    /\ UNCHANGED <<pipelineVars, repeatVars, concurrentVars, loop, walk>>

\* Parser(tokens).parse_expression()
ParseExpression ==
    /\ expression # NoneV
    /\ expression.result = NoneV
    /\ expression' = [expression EXCEPT
                        !.result = Production("parse_expression", expression.tokens.items, 0, NoneV)]
    /\ UNCHANGED <<pipelineVars, repeatVars, concurrentVars, loop, walk>>

ExpressionNext ==
    \/ \E text \in ExpressionSources : ChooseExpression(text)
    \/ ParseExpression

ExpressionSpec == Init /\ [][ExpressionNext]_vars

(***************************************************************************)
(* parse() on a number in the place of a primary expression: the value of  *)
(* a macro, or the right-hand side of an assignment in a function body.    *)
(***************************************************************************)
\* the characters after a number's first digit
NumberAlphabet == {"2", ".", "e", "E", "a", "f"}

\* runs of characters that the lexer takes as one NUMBER token
NumberTexts == {<<"1">> \o rest : rest \in Concatenations({<<c>> : c \in NumberAlphabet}, MaxChars + 1)}

\* the text before and after the number
NumberContexts ==
       "define" :> [before |-> <<"#", "d", "e", "f", "i", "n", "e", " ", "X", " ">>, after |-> <<"\n">>]
    @@ "assignment" :> [before |-> <<"i", "n", "t", " ", "f", "(", ")", "{", "x", "=">>,
                        after |-> <<";", "}">>]

\* the tokens of a source with a number are at hand
ChooseNumber(context, text) ==
    /\ expression = NoneV
    /\ expression' = [cls |-> "call", context |-> context, number |-> text,
                      tokens |-> ListV(tokenize(NumberContexts[context].before \o text
                                                \o NumberContexts[context].after).tokens),
                      result |-> NoneV]
    /\ UNCHANGED <<pipelineVars, repeatVars, concurrentVars, loop, walk>>

\* Parser(tokens).parse()
ParseNumber ==
    /\ expression # NoneV
    /\ expression.result = NoneV
    /\ expression' = [expression EXCEPT !.result = parse(expression.tokens.items)]
    /\ UNCHANGED <<pipelineVars, repeatVars, concurrentVars, loop, walk>>

NumberNext ==
    \/ \E context \in DOMAIN NumberContexts, text \in NumberTexts : ChooseNumber(context, text)
    \/ ParseNumber

NumberSpec == Init /\ [][NumberNext]_vars

(***************************************************************************)
(* One loop of the parser on its own: the parser is brought to the head    *)
(* of the loop by the text that leads to it, followed by a fragment, and   *)
(* the loop then goes round by round until it is left or raises.           *)
(***************************************************************************)
Loops == {"program", "struct_body", "parameters", "compound", "arguments", "postfix"}

\* for each loop, a text that leads the parser to it, the cursor the loop is
\* entered with after that text and what it has collected then
LoopEntry ==
       "program" :> [text |-> <<>>, current |-> 0, acc |-> <<>>]
    @@ "struct_body" :> [text |-> <<"s", "t", "r", "u", "c", "t", " ", "s", "{">>, current |-> 3, acc |-> <<>>]
    @@ "parameters" :> [text |-> <<"i", "n", "t", " ", "f", "(">>, current |-> 3, acc |-> <<>>]
    @@ "compound" :> [text |-> <<"i", "n", "t", " ", "f", "(", ")", "{">>, current |-> 5, acc |-> <<>>]
    @@ "arguments" :> [text |-> <<"i", "n", "t", " ", "f", "(", ")", "{", "a", "(">>, current |-> 7,
                       acc |-> <<>>]
    @@ "postfix" :> [text |-> <<"i", "n", "t", " ", "f", "(", ")", "{", "a", " ">>, current |-> 6,
                     acc |-> ASTNode("IDENTIFIER", StrV(<<"a">>), <<>>)]

Suffixes(s) == {SubSeq(s, n, Len(s)) : n \in 1..(Len(s) + 1)}

\* what follows the text that leads to the loop
LoopFragments ==
    UNION {Suffixes(program) : program \in Programs} \cup Concatenations(Vocabulary, MaxFrags)

\* the loop `name` as it is entered on the tokens `lexed`: the parameters and
\* the arguments are not looped over when the list is empty
LoopEntered(name, lexed) ==
    /\ lexed.ok
    /\ name \in {"parameters", "arguments"} =>
          Tok(lexed.tokens, LoopEntry[name].current).type # "RPAREN"
    /\ loop' = [cls |-> "loop", name |-> name, tokens |-> ListV(lexed.tokens),
                current |-> LoopEntry[name].current, acc |-> LoopEntry[name].acc,
                entry |-> LoopEntry[name].current, rounds |-> 0, status |-> "head", exc |-> NoExc]

\* parse() has come to the loop `name`
EnterLoop(name, text) ==
    /\ loop = NoneV
    /\ LoopEntered(name, tokenize(LoopEntry[name].text \o text))
    /\ UNCHANGED <<pipelineVars, repeatVars, concurrentVars, expression, walk>>

\* the loop l after a round that ended as r
LoopAfter(l, r) ==
    IF ~r.ok THEN [l EXCEPT !.current = r.cur, !.status = "raised", !.exc = r.exc]
    ELSE IF r.brk THEN [l EXCEPT !.current = r.cur, !.acc = r.val, !.status = "exit"]
    ELSE [l EXCEPT !.current = r.cur, !.acc = r.val, !.rounds = @ + 1]

\* the loop's condition holds and its body runs once
LoopRound ==
    /\ loop # NoneV
    /\ loop.status = "head"
    /\ LoopGuard(loop.name, loop.tokens.items, loop.current)
    /\ loop' = LoopAfter(loop, LoopBody(loop.name, loop.tokens.items, loop.current, loop.acc))
    /\ UNCHANGED <<pipelineVars, repeatVars, concurrentVars, expression, walk>>

\* the loop's condition fails
LoopExit ==
    /\ loop # NoneV
    /\ loop.status = "head"
    /\ ~LoopGuard(loop.name, loop.tokens.items, loop.current)
    /\ loop' = [loop EXCEPT !.status = "exit"]
    /\ UNCHANGED <<pipelineVars, repeatVars, concurrentVars, expression, walk>>

LoopNext ==
    \/ \E name \in Loops, text \in LoopFragments : EnterLoop(name, text)
    \/ LoopRound
    \/ LoopExit

LoopSpec == Init /\ [][LoopNext]_vars

(***************************************************************************)
(* analyze_ast call by call.  The calls still to come are kept as a list   *)
(* of objects, the next one first: a call records its node and then calls  *)
(* analyze_ast on each child in turn, before the calls its caller still    *)
(* has to make.                                                            *)
(***************************************************************************)
\* Pending with the children visited after everything else that is waiting
PendingLater(node, rest) == rest \o node.children

\* for child in node.children: self.analyze_ast(child, analysis), then the
\* calls `rest` of the callers
Pending(node, rest) == node.children \o rest

\* the traversal of the tree that parse() returned as `parsed` is about to start
WalkStarted(source_code, parsed) ==
    /\ parsed.exc = NoExc
    /\ walk' = [cls |-> "walk", tree |-> parsed.ret, stack |-> <<parsed.ret>>,
                analysis |-> NewAnalysis(source_code), visited |-> <<>>,
                status |-> "walking", exc |-> NoExc]

\* analyze_code has tokenized and parsed source_code and calls analyze_ast
StartWalk(source_code) ==
    /\ walk = NoneV
    /\ tokenize(source_code).ok
    /\ WalkStarted(source_code, parse(tokenize(source_code).tokens))
    /\ UNCHANGED <<pipelineVars, repeatVars, concurrentVars, expression, loop>>

\* one call of analyze_ast, up to its loop over the children
Visit ==
    /\ walk # NoneV
    /\ walk.status = "walking"
    /\ walk.stack # <<>>
    /\ walk' = IF Head(walk.stack).cls # "ASTNode"
               THEN [walk EXCEPT !.status = "raised",
                                 !.exc = AttributeError(Head(walk.stack).cls, "node_type")]
               ELSE [walk EXCEPT !.analysis = Record(Head(walk.stack), @),
                                 !.stack = Pending(Head(walk.stack), Tail(@)),
                                 !.visited = Append(@, Head(walk.stack))]
    /\ UNCHANGED <<pipelineVars, repeatVars, concurrentVars, expression, loop>>

\* the outermost call of analyze_ast returns
WalkReturn ==
    /\ walk # NoneV
    /\ walk.status = "walking"
    /\ walk.stack = <<>>
    /\ walk' = [walk EXCEPT !.status = "done"]
    /\ UNCHANGED <<pipelineVars, repeatVars, concurrentVars, expression, loop>>

WalkNext ==
    \/ \E s \in Sources : StartWalk(s)
    \/ Visit
    \/ WalkReturn

WalkSpec == Init /\ [][WalkNext]_vars

(***************************************************************************)
(* Properties of the analysis pipeline.                                    *)
(***************************************************************************)
\* stage has been invoked by analyze_code
Invoked(stage) == \E i \in 1..Len(calls) : calls[i] = stage

\* the name of a type: of a TYPE_SPECIFIER node, the keyword it carries
TypeName(t) == IF t.cls = "ASTNode" THEN t.value ELSE t

\* C1. End to end: analysing EndToEndSource yields a record with exactly one
\* include, <stdio.h>, exactly one function descriptor (name add, return type
\* int, parameters (int, a) and (int, b), has_body true) and complexity 2.
EndToEndRecord ==
    pc = "return" /\ source = EndToEndSource =>
        /\ analysis.includes = <<StrV(<<"<", "s", "t", "d", "i", "o", ".", "h", ">">>)>>
        /\ Len(analysis.functions) = 1
        /\ analysis.functions[1].name = StrV(<<"a", "d", "d">>)
        /\ TypeName(analysis.functions[1].type) = StrV(<<"i", "n", "t">>)
        /\ Len(analysis.functions[1].parameters) = 2
        /\ TypeName(analysis.functions[1].parameters[1].type) = StrV(<<"i", "n", "t">>)
        /\ analysis.functions[1].parameters[1].name = StrV(<<"a">>)
        /\ TypeName(analysis.functions[1].parameters[2].type) = StrV(<<"i", "n", "t">>)
        /\ analysis.functions[1].parameters[2].name = StrV(<<"b">>)
        /\ analysis.functions[1].has_body
        /\ analysis.complexity = 2

RECURSIVE SumSeq(_)
SumSeq(ns) == IF ns = <<>> THEN 0 ELSE ns[1] + SumSeq(Tail(ns))

\* the function definitions and the if, for, while and do-while statements
\* anywhere in obj: in a node, its value and its children; in a list, its items
RECURSIVE ComplexityOf(_)
ComplexityOf(obj) ==
    IF obj.cls = "ASTNode"
    THEN (IF obj.node_type \in {"FUNCTION_DEFINITION", "IF_STATEMENT", "FOR_STATEMENT",
                                "WHILE_STATEMENT", "DO_WHILE_STATEMENT"} THEN 1 ELSE 0)
         + ComplexityOf(obj.value)
         + SumSeq([i \in 1..Len(obj.children) |-> ComplexityOf(obj.children[i])])
    ELSE IF obj.cls = "list"
    THEN SumSeq([i \in 1..Len(obj.items) |-> ComplexityOf(obj.items[i])])
    ELSE 0

\* C2. For every source that tokenizes and parses, the complexity of the
\* record is non-negative and is the number of function definitions plus the
\* number of if, for, while and do-while nodes anywhere in the program, bodies
\* and nested blocks included; IfWhileSource (one function, one if, one while)
\* gives 3.
ComplexityCountsWholeTree ==
    /\ pc = "return" /\ ast.cls = "ASTNode" /\ ast.node_type = "PROGRAM"
       /\ analysis.parse_error = NoExc =>
            analysis.complexity >= 0 /\ analysis.complexity = ComplexityOf(ast)
    /\ pc = "return" /\ source = IfWhileSource => analysis.complexity = 3

\* C3. Analysing a struct definition with one int member and one member of an
\* unsupported or pointer type (long y; struct Q q; char *p;) yields exactly
\* one struct descriptor, with member count 1, and no parse error.
StructMemberCount ==
    pc = "return" /\ source \in {StructLongSource, StructNestedSource, StructPointerSource} =>
        /\ ast.cls = "ASTNode" /\ ast.node_type # "ERROR"
        /\ analysis.parse_error = NoExc
        /\ Len(analysis.structures) = 1
        /\ analysis.structures[1].members = 1

\* C4. Parser.parse() never raises: for every token sequence it returns an
\* AST node; when a production fails, with whatever exception, the node is an
\* ERROR node carrying the diagnostic and the diagnostic is appended to
\* self.errors; when none fails, the node is the program and self.errors stays
\* empty.
ParseNeverRaises ==
    parser # NoneV =>
        LET r == Production("parse_program", tokens.items, 0, NoneV) IN
        /\ ast.cls = "ASTNode"
        /\ pc \in {"analyze_ast", "return"} /\ (pc = "return" => Invoked("analyze_ast"))
        /\ r.ok => ast = r.val /\ parser.errors = <<>>
        /\ ~r.ok =>
            /\ ast = ASTNode("ERROR", Str(r.exc), <<>>)
            /\ parser.errors = <<[cls |-> "str", prefix |-> "Parser Error: ",
                                  message |-> Str(r.exc).message]>>

\* a skip loop ran past the final EOF token and parse() returned the ERROR node
ParseCaughtIndexError ==
    /\ parser # NoneV
    /\ caught.exc = "IndexError"
    /\ parser.current = Len(tokens.items)
    /\ ast.node_type = "ERROR"

\* C5. analyze_ast never raises on a tree returned by Parser.parse(): missing
\* or unexpected children are absent data and the traversal runs to the end.
TraversalNeverRaises ==
    pc = "return" /\ Invoked("analyze_ast") => analysis.parse_error = NoExc

\* the literal opened by the quote at offset i is closed on its line
Closed(src, i, quote) ==
    \E j \in (i + 1)..(Len(src) - 1) :
        /\ Ch(src, j) = quote
        /\ \A k \in (i + 1)..(j - 1) : Ch(src, k) \notin {quote, "\n"}

\* the characters some branch of the scan loop takes
KnownCharacters ==
    Whitespace \cup Digits \cup LowerLetters \cup UpperLetters \cup {"_", "\"", "'", "#"}
    \cup {op[1] : op \in DOMAIN operators} \cup {d[1] : d \in DOMAIN delimiters}

\* the scan is at a literal that meets a newline or the end of input before
\* its closing quote, or at a character no branch takes
AtLexicalError ==
    /\ pc = "tokenize"
    /\ current < Len(source)
    /\ LET char == Ch(source, current) IN
       \/ char \in {"\"", "'"} /\ ~Closed(source, current, char)
       \/ char \notin KnownCharacters

\* C6. tokenize fails, returning no token sequence and no part of one, when
\* the scan reaches a string or character literal that meets a newline or the
\* end of input before its closing quote, or a character that is none of
\* whitespace, comment start, quote, digit, letter, underscore, #, operator,
\* delimiter.
TokenizeFails ==
    [][AtLexicalError =>
         /\ pc' = "return"
         /\ tokens' = NoneV /\ lexTokens' = <<>>
         /\ analysis'.parse_error # NoExc
         /\ analysis'.parse_error.message.fmt \in
              {"Unterminated string", "Unterminated character literal", "Unknown character"}
         /\ calls' = calls]_vars

\* tokenize has failed on a character literal that was not closed, after
\* scanning other tokens
CharacterLiteralFailed ==
    /\ pc = "return"
    /\ tokens = NoneV
    /\ current > 0
    /\ analysis.parse_error # NoExc
    /\ analysis.parse_error.message.fmt = "Unterminated character literal"

\* a block comment token whose text does not end in */
Unclosed(token) ==
    /\ token.type = "COMMENT_BLOCK"
    /\ \/ Len(token.value) < 4
       \/ SubSeq(token.value, Len(token.value) - 1, Len(token.value)) # <<"*", "/">>

\* C7. tokenize fails on a source with a block comment that /* opens and no
\* */ closes before the end of input: it returns no token sequence for it.
UnclosedCommentFails ==
    tokens # NoneV => \A j \in 1..Len(tokens.items) : ~Unclosed(tokens.items[j])

\* tokenize has failed on a string literal that was not closed
StringLiteralFailed ==
    /\ analysis # NoneV
    /\ analysis.parse_error # NoExc
    /\ analysis.parse_error.message.fmt = "Unterminated string"

\* C8. Error isolation: when tokenize fails on a source with an unterminated
\* string literal, neither Parser.parse nor analyze_ast is ever invoked for
\* that source; the failure is the last step of the pipeline.
ErrorIsolation ==
    StringLiteralFailed =>
        /\ pc = "return"
        /\ ~Invoked("parse") /\ ~Invoked("analyze_ast")
        /\ tokens = NoneV /\ parser = NoneV /\ ast = NoneV

\* tokenize has failed on an unterminated string after other tokens
StringFailedAfterTokens == StringLiteralFailed /\ current > 0

\* the j-th token's lexeme lies in the source at the offset starts[j]
LexemeAt(j) ==
    LET token == tokens.items[j] IN
    IF token.type = "EOF" THEN starts[j] = Len(source)
    ELSE IF token.type \in {"STRING", "CHARACTER"}
    THEN Slice(source, starts[j] + 1, starts[j] + 1 + Len(token.value)) = token.value
    ELSE IF token.type \in {preprocessor[d] : d \in DOMAIN preprocessor}
    THEN Ch(source, starts[j]) = "#"
    ELSE Slice(source, starts[j], starts[j] + Len(token.value)) = token.value

\* C9. Every token sequence tokenize returns lists its tokens in source order
\* and holds exactly one EOF token, its last element; the empty source gives
\* the EOF token alone.
TokensInSourceOrder ==
    tokens # NoneV =>
        LET t == tokens.items IN
        /\ Len(t) >= 1 /\ Len(starts) = Len(t)
        /\ t[Len(t)].type = "EOF"
        /\ \A j \in 1..(Len(t) - 1) : t[j].type # "EOF" /\ starts[j] < starts[j + 1]
        /\ \A j \in 1..Len(t) : LexemeAt(j)
        /\ source = <<>> => t = <<Token("EOF", <<>>, 1, 1)>>

\* tokenize has returned a sequence of several tokens on several lines
SeveralTokensReturned ==
    /\ tokens # NoneV
    /\ Len(tokens.items) >= 5
    /\ tokens.items[Len(tokens.items)].line >= 2

\* the 1-based line and column of the character at offset `offset`
LineOf(offset) == 1 + Cardinality({i \in 1..offset : source[i] = "\n"})

ColumnOf(offset) ==
    LET newlines == {i \in 1..offset : source[i] = "\n"} IN
    offset + 1 - (IF newlines = {} THEN 0 ELSE CHOOSE i \in newlines : \A k \in newlines : k <= i)

\* C10. The line and column of every token tokenize returns are the 1-based
\* line and column of the first character of its lexeme, also for string,
\* character, block comment and directive tokens and the tokens after them.
ExactPositions ==
    tokens # NoneV =>
        \A j \in 1..Len(tokens.items) :
            /\ tokens.items[j].line = LineOf(starts[j])
            /\ tokens.items[j].column = ColumnOf(starts[j])

\* the source has no string or character literal, no comment and no #
PlainSource ==
    \A i \in 0..(Len(source) - 1) :
        /\ Ch(source, i) \notin {"\"", "'", "#"}
        /\ ~(/\ Ch(source, i) = "/"
             /\ i + 1 < Len(source)
             /\ Ch(source, i + 1) \in {"/", "*"})

\* C11. For a source made only of identifiers, keywords, numbers, operators,
\* delimiters, spaces and newlines, the line and column of every token are the
\* 1-based line and column of its first character; a newline gives a NEWLINE
\* token at its own position and the next token is on the next line from
\* column 1: in TwoLinesSource the second int is at line 2, column 1.
PlainPositions ==
    tokens # NoneV /\ PlainSource =>
        /\ \A j \in 1..Len(tokens.items) :
              /\ tokens.items[j].line = LineOf(starts[j])
              /\ tokens.items[j].column = ColumnOf(starts[j])
        /\ \A j \in 1..(Len(tokens.items) - 1) :
              tokens.items[j].type = "NEWLINE" =>
                  /\ Ch(source, starts[j]) = "\n"
                  /\ tokens.items[j + 1].line = tokens.items[j].line + 1
                  /\ starts[j + 1] = starts[j] + 1 => tokens.items[j + 1].column = 1
        /\ source = TwoLinesSource =>
              tokens.items[5] = Token("INT", <<"i", "n", "t">>, 2, 1)

\* tokenize has returned the tokens of a plain source of two lines, the second
\* of which holds a token
SecondLineReached ==
    /\ tokens # NoneV
    /\ PlainSource
    /\ \E j \in 1..(Len(tokens.items) - 1) :
          /\ tokens.items[j].type # "NEWLINE"
          /\ tokens.items[j].line = 2
          /\ tokens.items[j].column = 1

NoStateAcrossCalls ==
    /\ again # NoneV /\ again.lexer = "same" =>
          /\ again.ok <=> tokens # NoneV
          /\ again.ok => again.tokens = tokens.items
    /\ reparse # NoneV =>
          /\ reparse.exc = NoExc
          /\ reparse.ret = ast
          /\ Len(reparse.parser.errors) <= Len(parser.errors)

\* the texts of the tokens toks, one after the other
RECURSIVE TextOf(_)
TextOf(toks) == IF toks = <<>> THEN <<>> ELSE toks[1].value \o TextOf(Tail(toks))

\* the characters of s that are not whitespace, in order
NonWhitespace(s) == SelectSeq(s, LAMBDA c : ~isspace(c))

\* C13. Round trip: for every source tokenize accepts, the texts of the
\* returned tokens, concatenated in order, have the non-whitespace characters
\* of the source, in order: each token's text is its exact lexeme, also for
\* string literals, character literals and preprocessor directives.
RoundTrip ==
    tokens # NoneV => NonWhitespace(TextOf(tokens.items)) = NonWhitespace(source)

\* C14. Concurrent calls of analyze_code, each with its own source text, token
\* sequence and analysis record, do not interfere, whatever the interleaving
\* of their steps and also when they go through one CCompiler: the AST and the
\* record of every call that has returned are those the call yields when it
\* runs alone.
NoInterference ==
    \A t \in Threads :
        threads[t].pc = "return" =>
            /\ threads[t].analysis = analyze_code(threads[t].source)
            /\ threads[t].tokens # NoneV =>
                  threads[t].ast = parse(threads[t].tokens.items).ret

\* C16. A top-level declaration with a function declarator that ends with `;`
\* (PrototypeSource, EmptyPrototypeSource) is parsed as a FUNCTION_DECLARATION
\* node and reported as one function descriptor, with the function's name and
\* has_body false, and as no variable descriptor.
PrototypeReported ==
    pc = "return" /\ source \in {PrototypeSource, EmptyPrototypeSource} =>
        /\ ast.cls = "ASTNode"
        /\ ast.node_type = "PROGRAM"
        /\ Len(ast.children) = 1
        /\ ast.children[1].node_type = "FUNCTION_DECLARATION"
        /\ Len(analysis.functions) = 1
        /\ analysis.functions[1].name = StrV(<<"f">>)
        /\ ~analysis.functions[1].has_body
        /\ analysis.variables = <<>>

\* toks without its NEWLINE tokens
WithoutNewlines(toks) == SelectSeq(toks, LAMBDA token : token.type # "NEWLINE")

\* the tokens hold a directive, which its line ends
HasDirective ==
    \E j \in 1..Len(tokens.items) :
        tokens.items[j].type \in {preprocessor[d] : d \in DOMAIN preprocessor} \cup {"HASH"}

\* C17. The parser skips NEWLINE tokens wherever they are not grammatically
\* significant: when the tokens of a source without directives parse to a tree
\* once their NEWLINE tokens are taken out, parse() returns that same tree, and
\* no ERROR node, for the tokens with the NEWLINE tokens in place.
NewlinesSkipped ==
    parser # NoneV /\ ~HasDirective =>
        LET plain == parse(WithoutNewlines(tokens.items)).ret IN
        plain.node_type # "ERROR" => ast = plain

\* the layer of a binary operator in the precedence ladder, loosest first
OperatorLayer(operator) ==
    CASE operator \in {<<"=">>, <<"+", "=">>} -> 1
      [] operator = <<"|", "|">> -> 2
      [] operator = <<"&", "&">> -> 3
      [] operator \in {<<"=", "=">>, <<"!", "=">>} -> 4
      [] operator \in {<<"<">>, <<">", "=">>} -> 5
      [] operator = <<"<", "<">> -> 6
      [] operator \in {<<"+">>, <<"-">>} -> 7
      [] operator \in {<<"*">>, <<"/">>} -> 8

\* the node type of each layer
LayerNodeType ==
    <<"ASSIGNMENT_EXPRESSION", "LOGICAL_OR_EXPRESSION", "LOGICAL_AND_EXPRESSION",
      "EQUALITY_EXPRESSION", "RELATIONAL_EXPRESSION", "SHIFT_EXPRESSION",
      "ADDITIVE_EXPRESSION", "MULTIPLICATIVE_EXPRESSION", "UNARY_EXPRESSION", "IDENTIFIER">>

\* the layer of an expression tree: that of its operator for a binary node,
\* 9 for a prefix operator, 10 for an operand
Layer(node) ==
    IF Len(node.children) = 2 THEN OperatorLayer(node.value.s)
    ELSE IF Len(node.children) = 1 THEN 9
    ELSE 10

\* the texts of the tokens an expression tree was built from, left to right
RECURSIVE Yield(_)
Yield(node) ==
    IF Len(node.children) = 2
    THEN Yield(node.children[1]) \o <<node.value.s>> \o Yield(node.children[2])
    ELSE IF Len(node.children) = 1
    THEN <<node.value.s>> \o Yield(node.children[1])
    ELSE <<node.value.s>>

\* every node has the type of its layer; a binary operator has nothing looser
\* than itself below it, on the right nothing as loose either (on the left,
\* for an assignment); a prefix operator has no binary operator below it
RECURSIVE Laddered(_)
Laddered(node) ==
    /\ node.cls = "ASTNode"
    /\ node.node_type = LayerNodeType[Layer(node)]
    /\ \A i \in 1..Len(node.children) : Laddered(node.children[i])
    /\ Len(node.children) = 2 /\ Layer(node) > 1 =>
          /\ Layer(node.children[1]) >= Layer(node)
          /\ Layer(node.children[2]) > Layer(node)
    /\ Len(node.children) = 2 /\ Layer(node) = 1 =>
          /\ Layer(node.children[1]) > 1
          /\ Layer(node.children[2]) >= 1
    /\ Len(node.children) = 1 => Layer(node.children[1]) >= 9

\* C18. parse_expression builds the tree of the precedence ladder: it takes
\* the whole expression, the tree reads as the tokens from left to right, the
\* operators of one binary layer associate to the left, a tighter operator is
\* always below a looser one, a prefix operator binds tighter than every
\* binary operator, and the assignment operators associate to the right.
PrecedenceLadder ==
    expression # NoneV /\ expression.result # NoneV =>
        LET toks == expression.tokens.items
            r == expression.result
        IN /\ r.ok
           /\ r.cur = Len(toks) - 1
           /\ Yield(r.val) = [j \in 1..(Len(toks) - 1) |-> toks[j].value]
           /\ Laddered(r.val)

\* parse_expression has returned (a - b) - c for a - b - c
LeftLeaningTree ==
    /\ expression # NoneV
    /\ expression.result # NoneV
    /\ expression.result.ok
    /\ Yield(expression.result.val) = <<<<"a">>, <<"-">>, <<"b">>, <<"-">>, <<"c">>>>
    /\ expression.result.val.children[1].node_type = "ADDITIVE_EXPRESSION"
    /\ expression.result.val.children[2].node_type = "IDENTIFIER"

\* the token types a top-level construct starts with
TopLevelStarts == {"INCLUDE", "DEFINE", "INT", "CHAR", "FLOAT", "DOUBLE", "VOID", "STRUCT"}

\* the index of the first token of toks that starts a top-level construct or
\* ends the input
FirstStart(toks) ==
    Min({j \in 1..Len(toks) : toks[j].type \in TopLevelStarts \cup {"EOF"}})

\* C19. At the top level every token that is not #include, #define or one of
\* int, char, float, double, void, struct is skipped without a node or a
\* diagnostic and parsing goes on with the next token: parse() returns, and
\* the error list holds, what they are for the tokens from the first one that
\* starts a top-level construct; a source of skipped tokens only gives a
\* PROGRAM node without children and an empty error list.
TopLevelSkipped ==
    parser # NoneV =>
        LET toks == tokens.items
            rest == parse(SubSeq(toks, FirstStart(toks), Len(toks)))
        IN /\ ast = rest.ret
           /\ parser.errors = rest.errors
           /\ toks[FirstStart(toks)].type = "EOF" =>
                 /\ ast = ASTNode("PROGRAM", NoneV, <<>>)
                 /\ parser.errors = <<>>
                 /\ parser.current = Len(toks) - 1

\* parse() has skipped a token and then parsed a declaration
SkippedToDeclaration ==
    /\ parser # NoneV
    /\ FirstStart(tokens.items) > 1
    /\ ast.node_type = "PROGRAM"
    /\ Len(ast.children) >= 1

\* the tokens are those of one #define NAME, with newlines around it or none
BareDefine ==
    LET toks == WithoutNewlines(tokens.items) IN
    /\ Len(toks) = 3
    /\ toks[1].type = "DEFINE"
    /\ toks[2].type = "IDENTIFIER"
    /\ \A j \in 1..(Len(tokens.items) - 1) :
          tokens.items[j].type = "IDENTIFIER" => tokens.items[j + 1].type \in {"NEWLINE", "EOF"}

\* C20. A #define NAME without replacement text is accepted, whether a
\* newline or the end of input follows it: it gives a DEFINE node without
\* children, reported as a macro descriptor with that name and no value.
BareDefineAccepted ==
    pc = "return" /\ tokens # NoneV /\ BareDefine =>
        LET name == StrV(WithoutNewlines(tokens.items)[2].value) IN
        /\ ast = ASTNode("PROGRAM", NoneV, <<ASTNode("DEFINE", name, <<>>)>>)
        /\ analysis.parse_error = NoExc
        /\ analysis.defines = <<[name |-> name, value |-> NoneV]>>

Lists == {"functions", "variables", "includes", "defines", "structures", "comments"}

\* a is b or the beginning of b
IsPrefix(a, b) == Len(a) <= Len(b) /\ SubSeq(b, 1, Len(a)) = a

\* the objects of a tree in depth-first pre-order over the children lists
RECURSIVE PreOrder(_)
RECURSIVE PreOrderOf(_, _)
PreOrder(obj) ==
    IF obj.cls # "ASTNode" THEN <<obj>> ELSE <<obj>> \o PreOrderOf(obj.children, 1)

\* the pre-order of the trees children[i], children[i + 1], ..., one after another
PreOrderOf(children, i) ==
    IF i > Len(children) THEN <<>> ELSE PreOrder(children[i]) \o PreOrderOf(children, i + 1)

\* the entries that the nodes `nodes` give the list l, each node's entry
\* taken on its own, in the order of `nodes`
RECURSIVE EntriesOf(_, _)
EntriesOf(l, nodes) ==
    IF nodes = <<>> THEN <<>>
    ELSE EntriesOf(l, SubSeq(nodes, 1, Len(nodes) - 1))
         \o Record(nodes[Len(nodes)], NewAnalysis(<<>>))[l]

\* C22. The traversal meets the nodes in depth-first pre-order over the
\* children lists, and each list of the analysis record holds the entries of
\* the nodes met so far, in the order in which they were met; a call of
\* analyze_ast only appends to a list (what the list held stays, in place)
\* and never lowers complexity.
EncounterOrder ==
    /\ [](walk # NoneV =>
            /\ IsPrefix(walk.visited, PreOrder(walk.tree))
            /\ walk.status = "done" => walk.visited = PreOrder(walk.tree)
            /\ \A l \in Lists : walk.analysis[l] = EntriesOf(l, walk.visited))
    /\ [][walk # NoneV =>
            /\ \A l \in Lists : IsPrefix(walk.analysis[l], walk'.analysis[l])
            /\ walk'.analysis.complexity >= walk.analysis.complexity]_vars

\* the traversal is over and has met two nodes that went into the same list,
\* after a node below the top level
SeveralEntriesInOrder ==
    /\ walk # NoneV
    /\ walk.status = "done"
    /\ \E l \in Lists : Len(walk.analysis[l]) >= 2
    /\ \E i \in 1..Len(walk.visited) :
          /\ walk.visited[i].node_type \in {"VARIABLE_DECLARATOR", "FUNCTION_DECLARATOR"}
          /\ i < Len(walk.visited)

\* the entries of the operator and delimiter tables, but for '#', which
\* starts a preprocessor directive
OperatorTable == [text \in (DOMAIN operators \cup DOMAIN delimiters) \ {<<"#">>} |->
                     IF text \in DOMAIN operators THEN operators[text] ELSE delimiters[text]]

\* the entries of the table that the source continues with at offset cur
EntriesAt(src, cur) ==
    {text \in DOMAIN OperatorTable :
        cur + Len(text) <= Len(src) /\ Slice(src, cur, cur + Len(text)) = text}

\* an operator or a delimiter starts at offset cur, and no comment does
OperatorStarts(src, cur) ==
    /\ EntriesAt(src, cur) # {}
    /\ ~(Ch(src, cur) = "/" /\ cur + 1 < Len(src) /\ Ch(src, cur + 1) \in {"/", "*"})

\* the longest of these entries
LongestEntry(src, cur) ==
    CHOOSE text \in EntriesAt(src, cur) : \A other \in EntriesAt(src, cur) : Len(other) <= Len(text)

\* C23. Where an operator or a delimiter starts, and no comment, the scan
\* loop appends one token, the longest entry of the tables that the source
\* continues with there, under the type the table gives it, and goes on
\* right after it; also when that entry ends the source.
LongestMatch ==
    [][pc = "tokenize" /\ current < Len(source) /\ OperatorStarts(source, current) =>
          LET text == LongestEntry(source, current) IN
          /\ lexTokens' = Append(lexTokens, Token(OperatorTable[text], text, line, column))
          /\ current' = current + Len(text)
          /\ pc' = "tokenize"]_vars

\* a+++b has given ++ and then +, and a three-character operator that ends
\* the source has given one token
OperatorEndsSource ==
    /\ pc = "tokenize"
    /\ current = Len(source)
    /\ Len(lexTokens) >= 4
    /\ lexTokens[2].type = "INCREMENT"
    /\ lexTokens[3].type = "PLUS"
    /\ lexTokens[Len(lexTokens)].type = "LEFT_SHIFT_ASSIGN"

\* C24. tokenize comes to an end: a round of the scan loop either raises,
\* which ends the call, or leaves the cursor further on, and never past the
\* end of the source; so does the round that rewinds to the word after a '#'
\* that no directive follows and the round that stops a block comment without
\* its end one character before the end of the source.
ScanAdvances ==
    [][pc = "tokenize" /\ current < Len(source) =>
          \/ /\ pc' = "return"
             /\ analysis'.parse_error # NoExc
          \/ /\ pc' = "tokenize"
             /\ current' > current
             /\ current' <= Len(source)]_vars

\* the scan loop has rewound to the word after a '#' and has then stopped a
\* block comment without its end one character before the end of the source
RewoundAndStoppedShort ==
    /\ pc = "tokenize"
    /\ Len(lexTokens) >= 3
    /\ lexTokens[1].type = "HASH"
    /\ lexTokens[2].type = "IDENTIFIER"
    /\ lexTokens[Len(lexTokens)].type = "COMMENT_BLOCK"
    /\ current = Len(source) - 1

\* the children of the root that are nodes of one of the kinds `types`
TopLevel(root, types) == SelectSeq(root.children, LAMBDA child : child.node_type \in types)

\* C25. Nothing inside a function body is recorded: the body of every
\* function definition of the tree is a node without children that carries
\* its statements as its value, complexity is at most the number of function
\* definitions at the top level, and the variables and functions lists have
\* at most one entry for each declaration at the top level.
BodiesNotRecorded ==
    pc = "return" =>
        IF ast = NoneV THEN analysis.complexity = 0 /\ analysis.variables = <<>>
        ELSE /\ \A i \in 1..Len(ast.children) :
                   ast.children[i].node_type = "FUNCTION_DEFINITION" =>
                       /\ ast.children[i].children[2].node_type = "COMPOUND_STATEMENT"
                       /\ ast.children[i].children[2].children = <<>>
                       /\ ast.children[i].children[2].value.cls = "list"
             /\ analysis.complexity <= Len(TopLevel(ast, {"FUNCTION_DEFINITION"}))
             /\ Len(analysis.variables) <= Len(TopLevel(ast, {"VARIABLE_DECLARATION"}))
             /\ Len(analysis.functions)
                    <= Len(TopLevel(ast, {"FUNCTION_DEFINITION", "FUNCTION_DECLARATION"}))

\* a function whose body holds a declaration or a branching statement went
\* through the whole analysis
BodyWithStatements ==
    /\ pc = "return"
    /\ ast # NoneV
    /\ analysis.parse_error = NoExc
    /\ analysis.complexity = 1
    /\ analysis.variables = <<>>
    /\ \E i \in 1..Len(ast.children) :
          /\ ast.children[i].node_type = "FUNCTION_DEFINITION"
          /\ \E j \in 1..Len(ast.children[i].children[2].value.items) :
                ast.children[i].children[2].value.items[j].node_type
                    \in {"VARIABLE_DECLARATION", "IF_STATEMENT", "WHILE_STATEMENT"}

\* C26. The structures list and the comments list of the record are empty
\* whatever the source: no object that the traversal could reach, going
\* from the root through the children lists, is a COMMENT or a
\* STRUCT_DEFINITION node.
StructuresAndCommentsEmpty ==
    /\ analysis # NoneV => analysis.structures = <<>> /\ analysis.comments = <<>>
    /\ ast # NoneV =>
          \A i \in 1..Len(PreOrder(ast)) :
              PreOrder(ast)[i].cls = "ASTNode" =>
                  PreOrder(ast)[i].node_type \notin {"COMMENT", "STRUCT_DEFINITION"}

\* a source with comments and a struct definition went through the whole
\* analysis: the definition is the value of a declaration of the tree
StructAndCommentsAnalyzed ==
    /\ pc = "return"
    /\ ast # NoneV
    /\ analysis.parse_error = NoExc
    /\ \E j \in 1..Len(tokens.items) : tokens.items[j].type = "COMMENT"
    /\ \E j \in 1..Len(tokens.items) : tokens.items[j].type = "COMMENT_BLOCK"
    /\ \E i \in 1..Len(ast.children) :
          /\ ast.children[i].value.cls = "ASTNode"
          /\ ast.children[i].value.node_type = "STRUCT_DEFINITION"

\* C27. parse() on a new Parser returns an ERROR root exactly when its error
\* list is not empty afterwards; the list then holds one entry, the message of
\* the exception that ended parse_program, which is also the root's value, and
\* the root has no children, whatever was parsed before the failure.
ErrorSentinel ==
    parser # NoneV /\ ast # NoneV =>
        /\ ast.node_type = "ERROR" <=> parser.errors # <<>>
        /\ ast.node_type = "ERROR" <=> caught # NoExc
        /\ ast.node_type = "ERROR" =>
              /\ Len(parser.errors) = 1
              /\ parser.errors[1].message = Str(caught).message
              /\ ast.value = Str(caught)
              /\ ast.children = <<>>
        /\ ast.node_type # "ERROR" => ast.node_type = "PROGRAM"

\* parse() has returned the ERROR root after a whole declaration was parsed
ErrorAfterDeclaration ==
    /\ parser # NoneV
    /\ ast # NoneV
    /\ ast.node_type = "ERROR"
    /\ Len(tokens.items) >= 4
    /\ tokens.items[1].type = "INT"
    /\ tokens.items[2].type = "IDENTIFIER"
    /\ tokens.items[3].type = "SEMICOLON"
    /\ parser.current >= 3

\* C28. When parse() returns the ERROR root the record is the one
\* analyze_code started from, all lists empty, complexity 0, and without a
\* parse_error: the parser's diagnostic is not copied; a record has a
\* parse_error only if tokenize raised, so that parse was never invoked, or
\* if the traversal raised on a tree that is no ERROR root.
DiagnosticNotCopied ==
    pc = "return" =>
        /\ ast # NoneV /\ ast.node_type = "ERROR" =>
              /\ analysis = NewAnalysis(source)
              /\ analysis.parse_error = NoExc
              /\ \A l \in Lists : analysis[l] = <<>>
              /\ analysis.complexity = 0
        /\ analysis.parse_error # NoExc =>
              \/ ~Invoked("parse") /\ tokens = NoneV
              \/ /\ Invoked("analyze_ast")
                 /\ ast.node_type = "PROGRAM"
                 /\ analysis.parse_error = Str(analyze_ast(ast, NewAnalysis(source)).exc)

\* analyze_code has returned after parse() returned the ERROR root
ReturnedAfterError ==
    /\ pc = "return"
    /\ ast # NoneV
    /\ ast.node_type = "ERROR"
    /\ parser.errors # <<>>
    /\ Invoked("analyze_ast")

\* s holds digits only
IsDigits(s) == \A i \in 1..Len(s) : s[i] \in Digits

\* digits, then a '.' and digits or none if any
IsMantissa(s) ==
    \E j \in 1..Len(s) :
        /\ IsDigits(SubSeq(s, 1, j))
        /\ j = Len(s) \/ (s[j + 1] = "." /\ IsDigits(SubSeq(s, j + 2, Len(s))))

\* a decimal floating-point literal: a mantissa, then e or E and digits if any
DecimalFloat(s) ==
    \E k \in 1..Len(s) :
        /\ IsMantissa(SubSeq(s, 1, k))
        /\ k = Len(s) \/ (s[k + 1] \in {"e", "E"} /\ k + 2 <= Len(s) /\ IsDigits(SubSeq(s, k + 2, Len(s))))

\* the node that stands for the number in the tree parse() returned
NumberNode(context, root) ==
    IF context = "define" THEN root.children[1].children[1]
    ELSE root.children[1].children[2].value.items[1].value.children[2]

\* C29. A NUMBER token in the place of a primary expression whose text is no
\* decimal floating-point literal (hex letters other than an exponent's e,
\* two dots) makes parse() return the ERROR root, with the ValueError of the
\* conversion as its diagnostic; a text that is one gives a NUMBER node with
\* a float as value.
NumberConversion ==
    expression # NoneV /\ expression.result # NoneV =>
        /\ expression.tokens.items[IF expression.context = "define" THEN 3 ELSE 8]
              = Token("NUMBER", expression.number, 1, 11)
        /\ IF DecimalFloat(expression.number)
           THEN /\ expression.result.ret.node_type = "PROGRAM"
                /\ expression.result.errors = <<>>
                /\ NumberNode(expression.context, expression.result.ret).node_type = "NUMBER"
                /\ NumberNode(expression.context, expression.result.ret).value.cls = "float"
           ELSE /\ expression.result.ret.node_type = "ERROR"
                /\ expression.result.caught = ValueError(expression.number)
                /\ Len(expression.result.errors) = 1

\* parse() has returned the ERROR root for a number with a hex letter after
\* a digit and for one with two dots
NumberRejected ==
    /\ expression # NoneV
    /\ expression.result # NoneV
    /\ expression.result.ret.node_type = "ERROR"
    /\ expression.number \in {<<"1", "2", "a">>, <<"1", "f">>, <<"1", ".", "2", ".">>}

\* the nodes of a tree that a pre-order walk meets before the first object
\* that is no node, all of them if there is none
NodesBeforeFailure(tree) ==
    LET met == PreOrder(tree)
        failures == {i \in 1..Len(met) : met[i].cls # "ASTNode"}
    IN IF failures = {} THEN met ELSE SubSeq(met, 1, Min(failures) - 1)

\* the number of nodes among `nodes` that add one to complexity
Branching(nodes) ==
    Len(SelectSeq(nodes, LAMBDA node :
            node.node_type \in {"FUNCTION_DEFINITION", "IF_STATEMENT", "FOR_STATEMENT",
                                "WHILE_STATEMENT", "DO_WHILE_STATEMENT"}))

\* C30. analyze_code returns a record whatever the source: its lines field is
\* the number of newline characters plus one; if tokenize raised, the record
\* has a parse_error and nothing else; if the traversal raised, it has a
\* parse_error and the entries of the nodes met before the failure, in their
\* order, and of no other node; if nothing raised it has no parse_error and
\* the entries of all nodes.
RecordAlwaysReturned ==
    /\ pc \in {"idle", "tokenize", "parse", "analyze_ast", "return"}
    /\ pc = "return" =>
          /\ analysis.lines = Len(SelectSeq(source, LAMBDA c : c = "\n")) + 1
          /\ DOMAIN analysis = Lists \cup {"lines", "complexity", "parse_error"}
          /\ IF tokens = NoneV
             THEN /\ analysis.parse_error # NoExc
                  /\ analysis.parse_error.message.fmt
                        \in {"Unterminated string", "Unterminated character literal", "Unknown character"}
                  /\ \A l \in Lists : analysis[l] = <<>>
                  /\ analysis.complexity = 0
             ELSE /\ ast # NoneV
                  /\ \A l \in Lists : analysis[l] = EntriesOf(l, NodesBeforeFailure(ast))
                  /\ analysis.complexity = Branching(NodesBeforeFailure(ast))
                  /\ analysis.parse_error # NoExc <=> NodesBeforeFailure(ast) # PreOrder(ast)
                  /\ analysis.parse_error # NoExc =>
                        analysis.parse_error.message.fmt = "object has no attribute"

\* the traversal has raised after it recorded entries, in a tree with a
\* declaration after the point of failure
FailedPartway ==
    /\ pc = "return"
    /\ ast # NoneV
    /\ analysis.parse_error # NoExc
    /\ analysis.functions # <<>>
    /\ analysis.variables # <<>>
    /\ Len(analysis.variables) < Len(TopLevel(ast, {"VARIABLE_DECLARATION"}))

=============================================================================
